---------------------------- MODULE Spec2Model ----------------------------
(***************************************************************************)
(* Forecast-intelligence engine of 828 Weather Direct (forecast-intel.js). *)
(*                                                                         *)
(* The engine is a set of synchronous functions over an Open-Meteo style   *)
(* `hourly` object of parallel arrays.  The model keeps the series the     *)
(* data provider delivered, the clock, and the last call made to one of    *)
(* the engine's functions together with the value it returned.             *)
(*                                                                         *)
(* Units.  Rain and snow amounts are integers in hundredths of an inch     *)
(* (0.40in = 40), so every breakpoint of the source is an exact integer.   *)
(* Temperatures, dewpoints (F), gusts (mph), UV and wind direction         *)
(* (degrees) are integers.                                                 *)
(*                                                                         *)
(* JavaScript values.  A sample is a number, `null` (null, undefined, or   *)
(* an index outside the array) or `NaN`.  NaN also stands for a            *)
(* non-numeric sample: added to a number it gives a string that every      *)
(* numeric comparison converts to NaN.                                     *)
(***************************************************************************)
EXTENDS Integers, Sequences, FiniteSets, TLC

VARIABLES
    hourly,   \* the series: a record of parallel arrays
    now,      \* the clock: the local calendar day `new Date()` returns
    call      \* the last call: [fn, arg, ret]

vars == <<hourly, now, call>>

----------------------------------------------------------------------------
(* JavaScript values and operators *)

null == -1000000
NaN  == -2000000

IsNum(v) == v # null /\ v # NaN

\* Number(v) as the relational operators and `+`, `-` apply it: null is 0.
ToNum(v) == IF v = null THEN 0 ELSE v

\* a < b, a <= b, a >= b, a > b: false as soon as an operand is NaN.
JsLt(a, b) == a # NaN /\ b # NaN /\ ToNum(a) < ToNum(b)
JsLe(a, b) == a # NaN /\ b # NaN /\ ToNum(a) <= ToNum(b)
JsGe(a, b) == a # NaN /\ b # NaN /\ ToNum(a) >= ToNum(b)
JsGt(a, b) == a # NaN /\ b # NaN /\ ToNum(a) > ToNum(b)

\* a + b and a - b on numbers, null and NaN.
JsAdd(a, b) == IF a = NaN \/ b = NaN THEN NaN ELSE ToNum(a) + ToNum(b)
JsSub(a, b) == IF a = NaN \/ b = NaN THEN NaN ELSE ToNum(a) - ToNum(b)

\* a ?? d: only null and undefined are replaced, NaN is kept.
Coalesce(a, d) == IF a = null THEN d ELSE a

\* arr[i] with the source's 0-based index; undefined outside the array.
At(arr, i) == IF i >= 0 /\ i < Len(arr) THEN arr[i + 1] ELSE null

safeNum(arr, i) ==
    IF i < 0 \/ i >= Len(arr) THEN null
    ELSE IF IsNum(arr[i + 1]) THEN arr[i + 1] ELSE null

----------------------------------------------------------------------------
(* PART 1 - hourly window tools *)

Min2(a, b) == IF a < b THEN a ELSE b
Max2(a, b) == IF a > b THEN a ELSE b

\* hourly.time[i] is modelled by the calendar day its first ten characters
\* name; targetDate by the day the formatted yyyy-mm-dd string names.
getCalendarDayWindow(h, targetDate) ==
    LET times == h.time
        hits  == {i \in 0..(Len(times) - 1) : times[i + 1] = targetDate}
    IN  IF Len(times) = 0 THEN [start |-> 0, end |-> 0]
        ELSE IF hits = {} THEN [start |-> 0, end |-> 0]
        ELSE [start |-> CHOOSE i \in hits : \A j \in hits : i <= j,
              end   |-> (CHOOSE i \in hits : \A j \in hits : i >= j) + 1]

\* `clock` is the day `new Date()` gives when the function runs.
getTomorrowWindow(h, clock) ==
    LET tomorrow == clock + 1
        w        == getCalendarDayWindow(h, tomorrow)
        len      == Len(h.time)
    IN  IF w.start = 0 /\ w.end = 0
        THEN [start |-> Min2(24, Max2(0, len - 24)), end |-> Min2(48, len)]
        ELSE w

----------------------------------------------------------------------------
(* PART 1 - accumulation helpers *)

RECURSIVE accumulateFrom(_, _, _, _)
accumulateFrom(arr, i, end, total) ==
    IF i >= end THEN total
    ELSE accumulateFrom(arr, i + 1, end, total + ToNum(safeNum(arr, i)))

\* accumulatePrecip: safeNum(arr, i) ?? 0 summed over the window.
accumulatePrecip(h, start, end) ==
    [rainTotal |-> accumulateFrom(h.precipitation, start, end, 0),
     snowTotal |-> accumulateFrom(h.snowfall, start, end, 0)]

\* The valid (safeNum) samples of arr over [start, end).
ValidIn(arr, start, end) ==
    {safeNum(arr, i) : i \in {j \in start..(end - 1) : safeNum(arr, j) # null}}

SetMax(S) == CHOOSE x \in S : \A y \in S : x >= y
SetMin(S) == CHOOSE x \in S : \A y \in S : x <= y

\* maxGust starts at 0 and is raised by every valid gust above it.
summarizeWindGusts(h, start, end) ==
    LET gusts == ValidIn(h.windgusts_10m, start, end) \cup {0}
    IN  [maxGust |-> SetMax(gusts)]

\* maxDew is null unless a valid dewpoint was seen; maxUV starts at 0.
summarizeDewAndUV(h, start, end) ==
    LET dews == ValidIn(h.dewpoint_2m, start, end)
        uvs  == ValidIn(h.uv_index, start, end) \cup {0}
    IN  [maxDew |-> IF dews = {} THEN null ELSE SetMax(dews),
         maxUV  |-> SetMax(uvs)]

----------------------------------------------------------------------------
(* PART 2 - QPF interpreter *)

classifyRain_LightTo30(rainTotal) ==
    IF JsLt(rainTotal, 1) THEN [type |-> "none", label |-> "No rain", severity |-> 0]
    ELSE IF JsLt(rainTotal, 5) THEN [type |-> "trace", label |-> "Trace moisture", severity |-> 1]
    ELSE IF JsLt(rainTotal, 15) THEN [type |-> "spotty", label |-> "Spotty showers", severity |-> 2]
    ELSE IF JsLt(rainTotal, 30) THEN [type |-> "light", label |-> "Light rain", severity |-> 3]
    ELSE IF JsLt(rainTotal, 75) THEN [type |-> "steady", label |-> "Steady rain", severity |-> 4]
    ELSE IF JsLt(rainTotal, 125) THEN [type |-> "soaking", label |-> "A soaking rain", severity |-> 5]
    ELSE [type |-> "heavy", label |-> "Heavy rain", severity |-> 6]

classifyRain_InclusiveTop(rainTotal) ==
    IF JsLt(rainTotal, 1) THEN [type |-> "none", label |-> "No rain", severity |-> 0]
    ELSE IF JsLt(rainTotal, 5) THEN [type |-> "trace", label |-> "Trace moisture", severity |-> 1]
    ELSE IF JsLt(rainTotal, 15) THEN [type |-> "spotty", label |-> "Spotty showers", severity |-> 2]
    ELSE IF JsLt(rainTotal, 40) THEN [type |-> "light", label |-> "Light rain", severity |-> 3]
    ELSE IF JsLt(rainTotal, 75) THEN [type |-> "steady", label |-> "Steady rain", severity |-> 4]
    ELSE IF JsLe(rainTotal, 125) THEN [type |-> "soaking", label |-> "A soaking rain", severity |-> 5]
    ELSE [type |-> "heavy", label |-> "Heavy rain", severity |-> 6]

classifyRain(rainTotal) ==
    IF JsLt(rainTotal, 1) THEN [type |-> "none", label |-> "No rain", severity |-> 0]
    ELSE IF JsLt(rainTotal, 5) THEN [type |-> "trace", label |-> "Trace moisture", severity |-> 1]
    ELSE IF JsLt(rainTotal, 15) THEN [type |-> "spotty", label |-> "Spotty showers", severity |-> 2]
    ELSE IF JsLt(rainTotal, 40) THEN [type |-> "light", label |-> "Light rain", severity |-> 3]
    ELSE IF JsLt(rainTotal, 75) THEN [type |-> "steady", label |-> "Steady rain", severity |-> 4]
    ELSE IF JsLt(rainTotal, 125) THEN [type |-> "soaking", label |-> "A soaking rain", severity |-> 5]
    ELSE [type |-> "heavy", label |-> "Heavy rain", severity |-> 6]

classifySnow_AccumulatingTo4in(snowTotal) ==
    IF JsLt(snowTotal, 5) THEN [type |-> "none", label |-> "No snow", severity |-> 0]
    ELSE IF JsLt(snowTotal, 10) THEN [type |-> "flurries", label |-> "Flurries", severity |-> 1]
    ELSE IF JsLt(snowTotal, 50) THEN [type |-> "dusting", label |-> "Dusting possible", severity |-> 2]
    ELSE IF JsLt(snowTotal, 100) THEN [type |-> "light", label |-> "Light accumulation", severity |-> 3]
    ELSE IF JsLt(snowTotal, 400) THEN [type |-> "accumulating", label |-> "Accumulating snow", severity |-> 4]
    ELSE IF JsLt(snowTotal, 600) THEN [type |-> "plowable", label |-> "Plowable snow", severity |-> 5]
    ELSE [type |-> "significant", label |-> "Significant snowfall", severity |-> 6]

classifySnow(snowTotal) ==
    IF JsLt(snowTotal, 5) THEN [type |-> "none", label |-> "No snow", severity |-> 0]
    ELSE IF JsLt(snowTotal, 10) THEN [type |-> "flurries", label |-> "Flurries", severity |-> 1]
    ELSE IF JsLt(snowTotal, 50) THEN [type |-> "dusting", label |-> "Dusting possible", severity |-> 2]
    ELSE IF JsLt(snowTotal, 100) THEN [type |-> "light", label |-> "Light accumulation", severity |-> 3]
    ELSE IF JsLt(snowTotal, 300) THEN [type |-> "accumulating", label |-> "Accumulating snow", severity |-> 4]
    ELSE IF JsLt(snowTotal, 600) THEN [type |-> "plowable", label |-> "Plowable snow", severity |-> 5]
    ELSE [type |-> "significant", label |-> "Significant snowfall", severity |-> 6]


\* The indices the source's `for (let i = from; i < end; i++)` visits.
Loop(from, end) == from..(end - 1)

\* spike = (rainArr[i] ?? 0) - (rainArr[i-1] ?? 0), for i in start+1 .. end-1.
detectConvective(rainArr, start, end) ==
    LET spike(i) == JsSub(Coalesce(At(rainArr, i), 0), Coalesce(At(rainArr, i - 1), 0))
        spikes   == {spike(i) : i \in {j \in Loop(start + 1, end) : JsGe(spike(j), 20)}}
    IN  [convective |-> spikes # {},
         maxSpike   |-> SetMax(spikes \cup {0})]

detectStratiform(rainArr, start, end) ==
    LET r(i)   == Coalesce(At(rainArr, i), 0)
        gentle == {i \in Loop(start, end) : JsGt(r(i), 1) /\ JsLt(r(i), 10)}
    IN  Cardinality(gentle) >= 4

detectNWFlowSnow(h, start, end) ==
    LET t(i) == safeNum(h.temperature_2m, i)
        s(i) == safeNum(h.snowfall, i)
        g(i) == safeNum(h.windgusts_10m, i)
        coldEnough  == \E i \in Loop(start, end) : t(i) # null /\ t(i) <= 34
        lightSnow   == \E i \in Loop(start, end) : s(i) # null /\ s(i) > 0 /\ s(i) < 20
        gustPattern == \E i \in Loop(start, end) : g(i) # null /\ g(i) >= 18 /\ g(i) <= 32
    IN  coldEnough /\ lightSnow /\ gustPattern

RECURSIVE qpfTotalFrom(_, _, _, _)
qpfTotalFrom(arr, i, end, total) ==
    IF i >= end THEN total
    ELSE qpfTotalFrom(arr, i + 1, end, JsAdd(total, Coalesce(At(arr, i), 0)))

\* analyzeQPF sums `arr[i] ?? 0` itself; it does not go through safeNum.
analyzeQPF(h, start, end) ==
    LET rainTotal == qpfTotalFrom(h.precipitation, start, end, 0)
        snowTotal == qpfTotalFrom(h.snowfall, start, end, 0)
        conv      == detectConvective(h.precipitation, start, end)
    IN  [rain       |-> classifyRain(rainTotal),
         snow       |-> classifySnow(snowTotal),
         convective |-> conv.convective,
         maxSpike   |-> conv.maxSpike,
         stratiform |-> detectStratiform(h.precipitation, start, end),
         nwFlowSnow |-> detectNWFlowSnow(h, start, end),
         rainTotal  |-> rainTotal,
         snowTotal  |-> snowTotal]

----------------------------------------------------------------------------
(* PART 3 - thermal profile engine *)

\* Wet-bulb temperature in HALF degrees F (tempF - 0.5 is 2*tempF - 1).
computeWetBulb(tempF, dewF) ==
    IF tempF = null \/ dewF = null THEN null
    ELSE LET spread == tempF - dewF
         IN  IF spread <= 2 THEN 2 * tempF - 1
             ELSE IF spread >= 15 THEN 2 * tempF - 16
             ELSE 2 * tempF - spread

\* 31.5F and 33.0F are 63 and 66 half degrees.
classifyHourlyPrecipType(tempF, dewF, snowIn) ==
    IF snowIn # null /\ snowIn > 5 THEN "snow"
    ELSE LET tw == computeWetBulb(tempF, dewF)
         IN  IF tw = null THEN "unknown"
             ELSE IF tw <= 63 THEN "snow"
             ELSE IF tw <= 66 THEN "mix"
             ELSE "rain"

detectCAD(h, start, end) ==
    LET t(i) == safeNum(h.temperature_2m, i)
        d(i) == safeNum(h.dewpoint_2m, i)
        g(i) == safeNum(h.windgusts_10m, i)
        fallingTemps == \E i \in Loop(start + 1, end) :
                            t(i - 1) # null /\ t(i) # null /\ t(i) < t(i - 1)
        risingDew    == \E i \in Loop(start + 1, end) :
                            d(i - 1) # null /\ d(i) # null /\ d(i) > d(i - 1)
        cadWind      == \E i \in Loop(start + 1, end) :
                            g(i) # null /\ g(i) >= 10 /\ g(i) <= 25
    IN  fallingTemps /\ risingDew /\ cadWind

detectFreezingDrizzle(h, start, end) ==
    \E i \in Loop(start, end) :
        LET t == safeNum(h.temperature_2m, i)
            d == safeNum(h.dewpoint_2m, i)
            r == safeNum(h.precipitation, i)
        IN  /\ t # null /\ d # null /\ r # null
            /\ t >= 28 /\ t <= 32 /\ r > 0 /\ r < 5 /\ t - d <= 4

analyzeThermalProfile(h, start, end) ==
    LET temps == ValidIn(h.temperature_2m, start, end)
        type(i) == classifyHourlyPrecipType(safeNum(h.temperature_2m, i),
                                            safeNum(h.dewpoint_2m, i),
                                            safeNum(h.snowfall, i))
        wb(i) == computeWetBulb(safeNum(h.temperature_2m, i), safeNum(h.dewpoint_2m, i))
        wetBulbs  == {wb(i) : i \in {j \in Loop(start, end) : wb(j) # null}}
        rainCount == Cardinality({i \in Loop(start, end) : type(i) = "rain"})
        snowCount == Cardinality({i \in Loop(start, end) : type(i) = "snow"})
        mixCount  == Cardinality({i \in Loop(start, end) : type(i) = "mix"})
    IN  [precipType |->
            IF snowCount > 0 /\ rainCount = 0 THEN "snow"
            ELSE IF rainCount > 0 /\ snowCount = 0 THEN "rain"
            ELSE IF mixCount > 0 \/ (rainCount > 0 /\ snowCount > 0) THEN "mix"
            ELSE "none",
         freezingDrizzle |-> detectFreezingDrizzle(h, start, end),
         cad        |-> detectCAD(h, start, end),
         minTemp    |-> IF temps = {} THEN null ELSE SetMin(temps),
         maxTemp    |-> IF temps = {} THEN null ELSE SetMax(temps),
         wetBulbMin |-> IF wetBulbs = {} THEN null ELSE SetMin(wetBulbs),
         wetBulbMax |-> IF wetBulbs = {} THEN null ELSE SetMax(wetBulbs)]

----------------------------------------------------------------------------
(* PART 4 - human-action outlook *)

\* detectMicroclimates reads the raw arrays (`arr[i] ?? default`), not safeNum.
detectMicroclimates(h, start, end) ==
    LET dir(i)  == Coalesce(At(h.winddirection_10m, i), 0)
        tNW(i)  == Coalesce(At(h.temperature_2m, i), 40)
        s(i)    == Coalesce(At(h.snowfall, i), 0)
        tCAD(i) == Coalesce(At(h.temperature_2m, i), 50)
        d(i)    == Coalesce(At(h.dewpoint_2m, i), 40)
        gap(i)  == JsSub(tCAD(i), d(i))
        \* temps.slice(start, end).filter(t => t != null)
        sliceTemps == {At(h.temperature_2m, i) :
                         i \in {j \in Loop(start, end) : At(h.temperature_2m, j) # null}}
    IN  [nwFlowSnow |-> \E i \in Loop(start, end) :
                            /\ JsGe(dir(i), 290) /\ JsLe(dir(i), 330)
                            /\ JsLe(tNW(i), 36) /\ JsGt(s(i), 5),
         cad        |-> \E i \in Loop(start, end) :
                            /\ JsGe(dir(i), 20) /\ JsLe(dir(i), 80)
                            /\ JsLe(tCAD(i), 45)
                            /\ JsLt(gap(i), 3) /\ JsGt(gap(i), -3),
         ridgeWinds |-> \E i \in Loop(start, end) :
                            JsGe(Coalesce(At(h.windgusts_10m, i), 0), 35),
         \* Math.min/Math.max of a list holding NaN are NaN
         layersDay  |-> /\ sliceTemps # {}
                        /\ NaN \notin sliceTemps
                        /\ SetMax(sliceTemps) - SetMin(sliceTemps) >= 22]

\* The JavaScript null result is the string "null" here.
detectGoldilocks(qpf, thermal, wind, dew, micro) ==
    LET maxTemp     == thermal.maxTemp
        minTemp     == thermal.minTemp
        perfectTemp == JsGe(maxTemp, 68) /\ JsLe(maxTemp, 74)
        perfectDew  == JsGe(dew.maxDew, 45) /\ JsLe(dew.maxDew, 52)
        calmWind    == JsLt(wind.maxGust, 20)
        dry         == JsLt(qpf.rainTotal, 5) /\ JsLt(qpf.snowTotal, 5)
        lowUV       == JsLt(dew.maxUV, 6)
    IN  IF perfectTemp /\ perfectDew /\ calmWind /\ dry /\ lowUV THEN "full"
        ELSE IF perfectTemp /\ dry /\ JsLt(wind.maxGust, 25) /\ JsLt(minTemp, 45)
             THEN "afternoon"
        ELSE IF perfectTemp /\ dry /\ micro.ridgeWinds THEN "valleys"
        ELSE IF perfectTemp /\ JsGt(dew.maxDew, 60) THEN "earlyMuggyLate"
        ELSE "null"

buildGoldilocksHeadline(type) ==
    CASE type = "full"           -> "Goldilocks Day!"
      [] type = "afternoon"      -> "Goldilocks Afternoon!"
      [] type = "valleys"        -> "Goldilocks in the Valleys!"
      [] type = "earlyMuggyLate" -> "Goldilocks Early, Muggy Late!"
      [] OTHER                   -> "null"

\* Emoji are named: sparkles, thunderstorm, rain-cloud, sun-behind-rain,
\* snow-cloud, dash (wind), fire, snowflake, sun-small-cloud, thermometer.
getActionIcon(flags) ==
    IF flags.goldilocks THEN "sparkles"
    ELSE IF flags.stormy THEN "thunderstorm"
    ELSE IF flags.rainy THEN "rain-cloud"
    ELSE IF flags.mixed THEN "sun-behind-rain"
    ELSE IF flags.snowy THEN "snow-cloud"
    ELSE IF flags.windy THEN "dash"
    ELSE IF flags.hot THEN "fire"
    ELSE IF flags.cold THEN "snowflake"
    ELSE IF flags.dry THEN "sun-small-cloud"
    ELSE "thermometer"

getActionBadge(flags) ==
    IF flags.goldilocks THEN [text |-> "Goldilocks", class |-> "badge-goldilocks"]
    ELSE IF flags.stormy THEN [text |-> "Stormy", class |-> "badge-stormy"]
    ELSE IF flags.rainy THEN [text |-> "Rainy", class |-> "badge-rainy"]
    ELSE IF flags.mixed THEN [text |-> "Mixed", class |-> "badge-mixed"]
    ELSE IF flags.snowy THEN [text |-> "Snowy", class |-> "badge-snowy"]
    ELSE IF flags.windy THEN [text |-> "Windy", class |-> "badge-windy"]
    ELSE IF flags.hot THEN [text |-> "Hot", class |-> "badge-hot"]
    ELSE IF flags.cold THEN [text |-> "Cold", class |-> "badge-cold"]
    ELSE IF flags.dry THEN [text |-> "Dry", class |-> "badge-dry"]
    ELSE [text |-> "Outlook", class |-> "badge-neutral"]

\* The flags block of getHumanActionOutlook.  analyzeQPF returns no
\* precipType field, so qpf.precipType is undefined and never === "mix".
outlookFlags(qpf, thermal, wind, goldilocksType) ==
    [goldilocks |-> goldilocksType # "null",
     stormy     |-> qpf.convective \/ qpf.rain.severity >= 5,
     rainy      |-> qpf.rain.severity >= 3 /\ qpf.rain.severity < 5,
     mixed      |-> "precipType" \in DOMAIN qpf /\ qpf.precipType = "mix",
     snowy      |-> qpf.snow.severity >= 2,
     windy      |-> JsGe(wind.maxGust, 30),
     hot        |-> JsGe(thermal.maxTemp, 85),
     cold       |-> JsLe(thermal.minTemp, 35),
     dry        |-> JsLt(qpf.rainTotal, 2) /\ JsLt(qpf.snowTotal, 2)]

\* Everything getHumanActionOutlook computes before it builds its result.
outlookAnalysis(h, clock) ==
    LET w       == getTomorrowWindow(h, clock)
        qpf     == analyzeQPF(h, w.start, w.end)
        thermal == analyzeThermalProfile(h, w.start, w.end)
        wind    == summarizeWindGusts(h, w.start, w.end)
        dew     == summarizeDewAndUV(h, w.start, w.end)
        micro   == detectMicroclimates(h, w.start, w.end)
        gold    == detectGoldilocks(qpf, thermal, wind, dew, micro)
    IN  [window |-> w, qpf |-> qpf, thermal |-> thermal, wind |-> wind,
         dew |-> dew, micro |-> micro, goldilocksType |-> gold,
         flags |-> outlookFlags(qpf, thermal, wind, gold)]

getHumanActionOutlook(h, clock) ==
    LET a == outlookAnalysis(h, clock)
    IN  [emoji    |-> getActionIcon(a.flags),
         badge    |-> getActionBadge(a.flags),
         headline |-> buildGoldilocksHeadline(a.goldilocksType)]

----------------------------------------------------------------------------
(* PART 2.5 - season-aware comfort module *)

\* The characters of the strings that String.prototype.includes is applied to.
\* (the season descriptors, the actions of buildActionList, and the needles).
Spell(str) ==
    CASE str = "unseasonably warm" ->
           <<"u", "n", "s", "e", "a", "s", "o", "n", "a", "b", "l", "y", " ", "w", "a", "r", "m">>
      [] str = "mild for this time of year" ->
           <<"m", "i", "l", "d", " ", "f", "o", "r", " ", "t", "h", "i", "s", " ", "t", "i", "m", "e", " ", "o", "f", " ", "y", "e", "a", "r">>
      [] str = "a bit warmer than normal" ->
           <<"a", " ", "b", "i", "t", " ", "w", "a", "r", "m", "e", "r", " ", "t", "h", "a", "n", " ", "n", "o", "r", "m", "a", "l">>
      [] str = "unseasonably cool" ->
           <<"u", "n", "s", "e", "a", "s", "o", "n", "a", "b", "l", "y", " ", "c", "o", "o", "l">>
      [] str = "cool for this time of year" ->
           <<"c", "o", "o", "l", " ", "f", "o", "r", " ", "t", "h", "i", "s", " ", "t", "i", "m", "e", " ", "o", "f", " ", "y", "e", "a", "r">>
      [] str = "a bit cooler than normal" ->
           <<"a", " ", "b", "i", "t", " ", "c", "o", "o", "l", "e", "r", " ", "t", "h", "a", "n", " ", "n", "o", "r", "m", "a", "l">>
      [] str = "seasonable" ->
           <<"s", "e", "a", "s", "o", "n", "a", "b", "l", "e">>
      [] str = "unseasonably" ->
           <<"u", "n", "s", "e", "a", "s", "o", "n", "a", "b", "l", "y">>
      [] str = "mild" ->
           <<"m", "i", "l", "d">>
      [] str = "carry an umbrella" ->
           <<"c", "a", "r", "r", "y", " ", "a", "n", " ", "u", "m", "b", "r", "e", "l", "l", "a">>
      [] str = "wear waterproof shoes or a rain jacket" ->
           <<"w", "e", "a", "r", " ", "w", "a", "t", "e", "r", "p", "r", "o", "o", "f", " ", "s", "h", "o", "e", "s", " ", "o", "r", " ", "a", " ", "r", "a", "i", "n", " ", "j", "a", "c", "k", "e", "t">>
      [] str = "allow extra travel time" ->
           <<"a", "l", "l", "o", "w", " ", "e", "x", "t", "r", "a", " ", "t", "r", "a", "v", "e", "l", " ", "t", "i", "m", "e">>
      [] str = "use caution on bridges and overpasses" ->
           <<"u", "s", "e", " ", "c", "a", "u", "t", "i", "o", "n", " ", "o", "n", " ", "b", "r", "i", "d", "g", "e", "s", " ", "a", "n", "d", " ", "o", "v", "e", "r", "p", "a", "s", "s", "e", "s">>
      [] str = "dress warmly" ->
           <<"d", "r", "e", "s", "s", " ", "w", "a", "r", "m", "l", "y">>
      [] str = "dress warmly in layers" ->
           <<"d", "r", "e", "s", "s", " ", "w", "a", "r", "m", "l", "y", " ", "i", "n", " ", "l", "a", "y", "e", "r", "s">>
      [] str = "wear gloves and a hat" ->
           <<"w", "e", "a", "r", " ", "g", "l", "o", "v", "e", "s", " ", "a", "n", "d", " ", "a", " ", "h", "a", "t">>
      [] str = "stay hydrated" ->
           <<"s", "t", "a", "y", " ", "h", "y", "d", "r", "a", "t", "e", "d">>
      [] str = "wear light clothing" ->
           <<"w", "e", "a", "r", " ", "l", "i", "g", "h", "t", " ", "c", "l", "o", "t", "h", "i", "n", "g">>
      [] str = "take breaks if outdoors" ->
           <<"t", "a", "k", "e", " ", "b", "r", "e", "a", "k", "s", " ", "i", "f", " ", "o", "u", "t", "d", "o", "o", "r", "s">>
      [] str = "apply sunscreen" ->
           <<"a", "p", "p", "l", "y", " ", "s", "u", "n", "s", "c", "r", "e", "e", "n">>
      [] str = "wear a hat or sunglasses" ->
           <<"w", "e", "a", "r", " ", "a", " ", "h", "a", "t", " ", "o", "r", " ", "s", "u", "n", "g", "l", "a", "s", "s", "e", "s">>
      [] str = "secure loose items" ->
           <<"s", "e", "c", "u", "r", "e", " ", "l", "o", "o", "s", "e", " ", "i", "t", "e", "m", "s">>
      [] str = "dress in layers - big temperature swings expected" ->
           <<"d", "r", "e", "s", "s", " ", "i", "n", " ", "l", "a", "y", "e", "r", "s", " ", "-", " ", "b", "i", "g", " ", "t", "e", "m", "p", "e", "r", "a", "t", "u", "r", "e", " ", "s", "w", "i", "n", "g", "s", " ", "e", "x", "p", "e", "c", "t", "e", "d">>
      [] str = "watch for slick spots on the Blue Ridge Parkway" ->
           <<"w", "a", "t", "c", "h", " ", "f", "o", "r", " ", "s", "l", "i", "c", "k", " ", "s", "p", "o", "t", "s", " ", "o", "n", " ", "t", "h", "e", " ", "B", "l", "u", "e", " ", "R", "i", "d", "g", "e", " ", "P", "a", "r", "k", "w", "a", "y">>
      [] str = "be alert for freezing drizzle in sheltered valleys" ->
           <<"b", "e", " ", "a", "l", "e", "r", "t", " ", "f", "o", "r", " ", "f", "r", "e", "e", "z", "i", "n", "g", " ", "d", "r", "i", "z", "z", "l", "e", " ", "i", "n", " ", "s", "h", "e", "l", "t", "e", "r", "e", "d", " ", "v", "a", "l", "l", "e", "y", "s">>
      [] str = "expect stronger winds on ridgelines" ->
           <<"e", "x", "p", "e", "c", "t", " ", "s", "t", "r", "o", "n", "g", "e", "r", " ", "w", "i", "n", "d", "s", " ", "o", "n", " ", "r", "i", "d", "g", "e", "l", "i", "n", "e", "s">>
      [] str = "travel" ->
           <<"t", "r", "a", "v", "e", "l">>
      [] str = "secure" ->
           <<"s", "e", "c", "u", "r", "e">>
      [] str = "dress in layers" ->
           <<"d", "r", "e", "s", "s", " ", "i", "n", " ", "l", "a", "y", "e", "r", "s">>
      [] str = "cool" ->
           <<"c", "o", "o", "l">>

\* haystack.includes(needle)
includes(haystack, needle) ==
    LET hay == Spell(haystack)
        ndl == Spell(needle)
    IN  \E i \in 1..(Len(hay) - Len(ndl) + 1) : SubSeq(hay, i, i + Len(ndl) - 1) = ndl

getSeasonalNormalHigh(month) ==
    CASE month = 0 -> 47 [] month = 1 -> 51 [] month = 2 -> 59 [] month = 3 -> 68
      [] month = 4 -> 75 [] month = 5 -> 82 [] month = 6 -> 85 [] month = 7 -> 84
      [] month = 8 -> 79 [] month = 9 -> 69 [] month = 10 -> 59 [] month = 11 -> 50

getTempAnomaly(temp, month) == JsSub(temp, getSeasonalNormalHigh(month))

describeSeasonalFeel(temp, month) ==
    LET anomaly == getTempAnomaly(temp, month)
    IN  IF JsGe(anomaly, 15) THEN "unseasonably warm"
        ELSE IF JsGe(anomaly, 8) THEN "mild for this time of year"
        ELSE IF JsGe(anomaly, 3) THEN "a bit warmer than normal"
        ELSE IF JsLe(anomaly, -15) THEN "unseasonably cool"
        ELSE IF JsLe(anomaly, -8) THEN "cool for this time of year"
        ELSE IF JsLe(anomaly, -3) THEN "a bit cooler than normal"
        ELSE "seasonable"

describeAbsoluteFeel(temp) ==
    IF JsGe(temp, 90) THEN "hot"
    ELSE IF JsGe(temp, 80) THEN "warm"
    ELSE IF JsGe(temp, 70) THEN "mild"
    ELSE IF JsGe(temp, 60) THEN "cool"
    ELSE IF JsGe(temp, 50) THEN "chilly"
    ELSE IF JsGe(temp, 40) THEN "cold"
    ELSE "very cold"

\* The local calendar: day 0 is April 30, days 1.. are May 1.. (getMonth is
\* 0-based), so "tomorrow" can fall in another month than "today".
getMonth(day) == IF day <= 0 THEN 3 ELSE 4

\* A fourth argument: nothing (undefined), a Date, or a number.
Undefined   == [kind |-> "undefined", month |-> 0]
DateIn(m)   == [kind |-> "date", month |-> m]
NumberArg   == [kind |-> "number", month |-> 0]

\* getComfortCategory(temp, dew, wind, dateObj = new Date()); `clock` is the
\* day new Date() gives.  The text is the list of its comma-separated parts.
\* A dateObj that is not a Date has no getMonth: the call throws TypeError.
getComfortCategory(temp, dew, wind, dateObj, clock) ==
    LET date == IF dateObj.kind = "undefined" THEN DateIn(getMonth(clock)) ELSE dateObj
        month    == date.month
        seasonal == describeSeasonalFeel(temp, month)
        absolute == describeAbsoluteFeel(temp)
        blended  ==
            IF includes(seasonal, "unseasonably") THEN seasonal
            ELSE IF includes(seasonal, "mild") /\ absolute = "cool" THEN "mild and pleasant"
            ELSE IF includes(seasonal, "cool") /\ absolute = "mild" THEN "cool for the season"
            ELSE IF seasonal = "seasonable" THEN absolute ELSE seasonal
        humid    == IF JsGe(dew, 65) /\ JsGe(temp, 75) THEN <<"humid">> ELSE <<>>
        dryAir   == IF JsLe(dew, 30) /\ JsGe(temp, 60) THEN <<"dry and comfortable">> ELSE <<>>
        windPart == IF JsGe(wind, 35) THEN <<"windy">>
                    ELSE IF JsGe(wind, 25) THEN <<"breezy">> ELSE <<>>
    IN  IF date.kind # "date" THEN [threw |-> "TypeError", text |-> <<>>]
        ELSE [threw |-> "no", text |-> <<blended>> \o humid \o dryAir \o windPart]

----------------------------------------------------------------------------
(* PART 5 - alerts *)

\* start = Math.min(12, len - 1) is -1 for a series with no hours.
alertWindow(h) ==
    LET len == Len(h.time)
    IN  [start |-> Min2(12, len - 1), end |-> Min2(48, len)]

Alert(id, icon, title) == [id |-> id, icon |-> icon, title |-> title]

\* The alerts in the order the source pushes them; each carries its id, icon
\* and title.
getForecastAlerts(h) ==
    LET w       == alertWindow(h)
        qpf     == analyzeQPF(h, w.start, w.end)
        thermal == analyzeThermalProfile(h, w.start, w.end)
        wind    == summarizeWindGusts(h, w.start, w.end)
        dew     == summarizeDewAndUV(h, w.start, w.end)
        maxUV   == dew.maxUV
        When(c, a) == IF c THEN <<a>> ELSE <<>>
    IN  When(qpf.snow.severity >= 3, Alert("snow", "snowflake", qpf.snow.label))
     \o When(qpf.nwFlowSnow /\ qpf.snow.severity <= 2,
             Alert("nwflow", "snow-cloud", "NW-flow snow showers"))
     \o When(thermal.freezingDrizzle,
             Alert("fzdrizzle", "ice", "Freezing drizzle possible"))
     \o When(qpf.rain.severity >= 4, Alert("rain", "rain-cloud", qpf.rain.label))
     \o When(qpf.convective,
             Alert("tstorms", "thunderstorm", "Downpours or thunderstorms"))
     \o (IF JsGe(wind.maxGust, 40)
         THEN <<Alert("strongwind", "wind-face", "Strong winds")>>
         ELSE When(JsGe(wind.maxGust, 30), Alert("gusty", "dash", "Gusty conditions")))
     \o When(thermal.maxTemp # null /\ JsGe(thermal.maxTemp, 88) /\ JsGe(dew.maxDew, 68),
             Alert("heat", "hot-face", "Hot and humid"))
     \o When(thermal.minTemp # null /\ JsLe(thermal.minTemp, 15),
             Alert("cold", "cold-face", "Bitter cold"))
     \o When(JsGe(maxUV, 7) /\ JsLt(qpf.rainTotal, 5),
             Alert("uv", "sun-face", "High UV index"))

----------------------------------------------------------------------------
(* The series, the clock and the calls *)

MaxLen       == 3     \* hours in a delivered series
MaxRainTotal == 135   \* largest rain total classified directly (1.35in)
MaxSnowTotal == 610   \* largest snow total classified directly (6.10in)

\* One hour of forecast data: what the provider can put at one index.
Hour(temp, dew, precip, snow, gust, uv, dir) ==
    [temp |-> temp, dew |-> dew, precip |-> precip, snow |-> snow,
     gust |-> gust, uv |-> uv, dir |-> dir]

HourSamples ==
    { Hour(70, 48, 0, 0, 10, 3, 180),              \* mild, calm and dry
      Hour(70, 48, 0, 0, 10, 8, 180),              \* the same under a high UV index
      Hour(70, 62, 0, 0, 10, 3, 180),              \* mild and muggy
      Hour(60, 48, 0, 0, 45, 3, 270),              \* cool with gale gusts
      Hour(60, 55, 50, 0, 5, 0, 180),              \* half an inch of rain
      Hour(60, 55, 18, 0, 5, 0, 180),              \* a shower
      Hour(30, 28, 0, 150, 5, 0, 300),             \* an inch and a half of snow
      Hour(30, 28, 0, 8, 20, 0, 300),              \* upslope flurries
      Hour(31, 29, 3, 0, 5, 0, 50),                \* freezing drizzle
      Hour(90, 70, 0, 0, 10, 8, 180),              \* hot and humid
      Hour(60, 48, NaN, NaN, 5, 3, 180),           \* precipitation samples invalid
      Hour(null, null, null, null, null, null, null) }  \* nothing reported

\* The calendar days the timestamps of a series fall on.
SeriesDays == {1, 2}

EmptySeries ==
    [time |-> <<>>, temperature_2m |-> <<>>, dewpoint_2m |-> <<>>,
     precipitation |-> <<>>, snowfall |-> <<>>, windgusts_10m |-> <<>>,
     uv_index |-> <<>>, winddirection_10m |-> <<>>]

withHour(h, day, smp) ==
    [time              |-> Append(h.time, day),
     temperature_2m    |-> Append(h.temperature_2m, smp.temp),
     dewpoint_2m       |-> Append(h.dewpoint_2m, smp.dew),
     precipitation     |-> Append(h.precipitation, smp.precip),
     snowfall          |-> Append(h.snowfall, smp.snow),
     windgusts_10m     |-> Append(h.windgusts_10m, smp.gust),
     uv_index          |-> Append(h.uv_index, smp.uv),
     winddirection_10m |-> Append(h.winddirection_10m, smp.dir)]

NoCall == [fn |-> "none", arg |-> <<>>, ret |-> <<>>]

Init ==
    /\ hourly = EmptySeries
    /\ now \in {0, 1}
    /\ call = NoCall

\* The provider delivers one more hour, one of `samples`; timestamps never
\* go back.
Deliver(samples, maxLen) ==
    /\ Len(hourly.time) < maxLen
    /\ \E day \in SeriesDays, smp \in samples :
          /\ Len(hourly.time) > 0 => day >= hourly.time[Len(hourly.time)]
          /\ hourly' = withHour(hourly, day, smp)
    /\ call' = NoCall
    /\ UNCHANGED now

AppendHour == Deliver(HourSamples, MaxLen)

GetHumanActionOutlook ==
    /\ call' = [fn  |-> "getHumanActionOutlook", arg |-> <<>>,
                ret |-> getHumanActionOutlook(hourly, now)]
    /\ UNCHANGED <<hourly, now>>

GetForecastAlerts ==
    /\ call' = [fn  |-> "getForecastAlerts", arg |-> <<>>,
                ret |-> getForecastAlerts(hourly)]
    /\ UNCHANGED <<hourly, now>>

Next ==
    \/ AppendHour
    \/ GetHumanActionOutlook
    \/ GetForecastAlerts

Spec == Init /\ [][Next]_vars

----------------------------------------------------------------------------
(* The ideal-day scenario: a window of 70F / 48F calm dry hours, analysed  *)
(* by the outlook and handed hour by hour to getComfortCategory.           *)

MaxIdealLen == 8

IdealHours == { Hour(70, 48, 0, 0, 5, 3, 180), Hour(70, 48, 0, 0, 10, 3, 180) }

\* What a caller passes after (temp, dew, gust): nothing, the hour's
\* precipitation (a number), or a Date.
FourthArgs == {Undefined, NumberArg, DateIn(0), DateIn(3), DateIn(6)}

AppendIdealHour == Deliver(IdealHours, MaxIdealLen)

\* A direct call with the readings of the latest hour of the series.
GetComfortCategory ==
    /\ Len(hourly.time) > 0
    /\ \E fourth \in FourthArgs :
          LET i    == Len(hourly.time)
              temp == hourly.temperature_2m[i]
              dew  == hourly.dewpoint_2m[i]
              wind == hourly.windgusts_10m[i]
          IN  call' = [fn  |-> "getComfortCategory",
                       arg |-> <<temp, dew, wind, fourth>>,
                       ret |-> getComfortCategory(temp, dew, wind, fourth, now)]
    /\ UNCHANGED <<hourly, now>>

NextIdeal ==
    \/ AppendIdealHour
    \/ GetHumanActionOutlook
    \/ GetComfortCategory

SpecIdeal == Init /\ [][NextIdeal]_vars

----------------------------------------------------------------------------
(* Direct calls of the classifiers *)

ClassifyRain ==
    /\ \E t \in 0..MaxRainTotal :
          call' = [fn |-> "classifyRain", arg |-> <<t>>, ret |-> classifyRain(t)]
    /\ UNCHANGED <<hourly, now>>

ClassifySnow ==
    /\ \E t \in 0..MaxSnowTotal :
          call' = [fn |-> "classifySnow", arg |-> <<t>>, ret |-> classifySnow(t)]
    /\ UNCHANGED <<hourly, now>>

NextClassify == ClassifyRain \/ ClassifySnow

SpecClassify == Init /\ [][NextClassify]_vars

----------------------------------------------------------------------------
(* The earlier engine (src/unnamed/part_001): index-list windows, slicing, *)
(* the personality comfort module and the counter-numbered alerts.  Its    *)
(* clock is read to the hour: an instant is a number of hours since 00:00  *)
(* of day 0.                                                               *)

dayOf(t)    == t \div 24
getHours(t) == t % 24

\* The indices i, ascending, whose timestamp lies between 00:00:00.000 and
\* 23:59:59.999 of the target day.
getHourlyWindowForDay(h, targetDay) ==
    LET times == h.time
    IN  SelectSeq([k \in 1..Len(times) |-> k - 1],
                  LAMBDA i : times[i + 1] = targetDay)

\* `clock` is the instant `new Date()` gives when the function runs.
getTomorrowWindow_part001(h, clock) == getHourlyWindowForDay(h, dayOf(clock) + 1)

\* A slice that reads the indices as 1-based positions.
sliceHourly_OneBased(h, indices) ==
    LET pick(arr) == [k \in 1..Len(indices) |-> At(arr, indices[k] - 1)]
    IN  [time              |-> pick(h.time),
         temperature_2m    |-> pick(h.temperature_2m),
         dewpoint_2m       |-> pick(h.dewpoint_2m),
         precipitation     |-> pick(h.precipitation),
         snowfall          |-> pick(h.snowfall),
         windgusts_10m     |-> pick(h.windgusts_10m),
         uv_index          |-> pick(h.uv_index),
         winddirection_10m |-> pick(h.winddirection_10m)]

\* indices.map(i => arr[i]) for every array of the series.
sliceHourly(h, indices) ==
    LET pick(arr) == [k \in 1..Len(indices) |-> At(arr, indices[k])]
    IN  [time              |-> pick(h.time),
         temperature_2m    |-> pick(h.temperature_2m),
         dewpoint_2m       |-> pick(h.dewpoint_2m),
         precipitation     |-> pick(h.precipitation),
         snowfall          |-> pick(h.snowfall),
         windgusts_10m     |-> pick(h.windgusts_10m),
         uv_index          |-> pick(h.uv_index),
         winddirection_10m |-> pick(h.winddirection_10m)]

\* A mean is kept exact, as the fraction num / den; the null mean of no
\* sample at all is 0 / 0.
NoMean == [num |-> 0, den |-> 0]

Mean(arr) ==
    LET n == Cardinality({i \in 0..(Len(arr) - 1) : safeNum(arr, i) # null})
    IN  IF n = 0 THEN NoMean
        ELSE [num |-> accumulateFrom(arr, 0, Len(arr), 0), den |-> n]

\* The statistics helpers of the earlier engine: minimum, maximum and mean
\* of the valid samples of the slice, null without any; totals are the sums
\* of the valid samples.
getTempStats(win) ==
    LET temps == ValidIn(win.temperature_2m, 0, Len(win.temperature_2m))
    IN  [min |-> IF temps = {} THEN null ELSE SetMin(temps),
         max |-> IF temps = {} THEN null ELSE SetMax(temps),
         avg |-> Mean(win.temperature_2m)]

getDewStats(win) ==
    LET dews == ValidIn(win.dewpoint_2m, 0, Len(win.dewpoint_2m))
    IN  [min |-> IF dews = {} THEN null ELSE SetMin(dews),
         max |-> IF dews = {} THEN null ELSE SetMax(dews),
         avg |-> Mean(win.dewpoint_2m)]

getWindGustStats(win) ==
    LET gusts == ValidIn(win.windgusts_10m, 0, Len(win.windgusts_10m))
    IN  [max |-> IF gusts = {} THEN null ELSE SetMax(gusts)]

getPrecipTotal(win) == accumulateFrom(win.precipitation, 0, Len(win.precipitation), 0)
getSnowTotal(win)   == accumulateFrom(win.snowfall, 0, Len(win.snowfall), 0)

\* The template literal `${key}-${idCounter}`.
NumberedId(key, idCounter) == key \o "-" \o ToString(idCounter)

RECURSIVE pushAlerts(_, _, _)
\* The alerts pushed for the conditions `due` (in source order), the first
\* of them numbered idCounter: every push does idCounter++.
pushAlerts(due, k, idCounter) ==
    IF k > Len(due) THEN <<>>
    ELSE <<Alert(NumberedId(due[k].key, idCounter), due[k].icon, due[k].title)>>
         \o pushAlerts(due, k + 1, idCounter + 1)

getForecastAlerts_part001(h, clock) ==
    LET indices     == getTomorrowWindow_part001(h, clock)
        win         == sliceHourly(h, indices)
        tempStats   == getTempStats(win)
        windStats   == getWindGustStats(win)
        precipTotal == getPrecipTotal(win)
        snowTotal   == getSnowTotal(win)
        gustMax     == Coalesce(windStats.max, 0)
        Cond(c, key, icon, title) ==
            IF c THEN <<[key |-> key, icon |-> icon, title |-> title]>> ELSE <<>>
        due == Cond(precipTotal >= 25 /\ snowTotal = 0, "rain", "rain-cloud", "Rain likely")
            \o Cond(snowTotal > 5, "snow", "snowflake", "Snow potential")
            \o Cond(gustMax >= 30, "wind", "dash", "Gusty winds")
            \o Cond(tempStats.max # null /\ tempStats.max >= 85,
                    "heat", "fire", "Hot afternoon")
            \o Cond(tempStats.min # null /\ tempStats.min <= 28,
                    "freeze", "ice", "Freeze risk")
    IN  IF Len(indices) = 0 THEN <<>> ELSE pushAlerts(due, 1, 1)

\* Temperatures and dewpoints handed to the comfort module are fractions
\* num / den (den > 0): a window mean need not be a whole degree.
Frac(n) == [num |-> n, den |-> 1]
FracLe(q, k) == q.num <= k * q.den
FracLt(q, k) == q.num < k * q.den
FracGe(q, k) == q.num >= k * q.den

NORMAL_HIGHS ==
    <<47, 51, 59, 68, 75, 82, 85, 84, 78, 69, 59, 50>>

NORMAL_LOWS ==
    <<28, 31, 36, 43, 52, 60, 64, 63, 57, 46, 37, 31>>

monthName(i) ==
    <<"January", "February", "March", "April", "May", "June", "July",
      "August", "September", "October", "November", "December">>[i + 1]

getPersonalityPhrase(feel, nuance) ==
    CASE feel = "biting" ->
           IF nuance = "windy"
           THEN "Biting cold - the kind that wakes you up whether you want it to or not"
           ELSE "Biting cold - bundle up, friend"
      [] feel = "cold" ->
           IF nuance = "breezy"
           THEN "Cold with a side of breeze - nature's way of saying 'layer up, friend.'"
           ELSE IF nuance = "crisp" THEN "Cold and crisp - classic mountain morning chill"
           ELSE "Cold - definitely jacket weather"
      [] feel = "chilly" -> "Chilly but manageable - jacket weather, not misery weather"
      [] feel = "cool" ->
           IF nuance = "breezy" THEN "Cool and breezy - a light jacket and a good attitude"
           ELSE IF nuance = "crisp" THEN "Cool and crisp - clean, refreshing, no nonsense"
           ELSE IF nuance = "humid" THEN "Cool but muggy - a strange combo, but here we are"
           ELSE "Cool - refreshing and easygoing"
      [] feel = "mild" ->
           IF nuance = "breezy" THEN "Mild with a breeze - windows-down weather"
           ELSE IF nuance = "humid" THEN "Mild but muggy - a little clingy, but still friendly"
           ELSE "Mild and calm - easygoing, like Asheville on a Sunday"
      [] feel = "warm" ->
           IF nuance = "breezy" THEN "Warm with a breeze - nature's version of air-conditioning"
           ELSE IF nuance = "humid" THEN "Yuck! Air you can wear"
           ELSE "Warm and pleasant - Asheville at its friendliest"
      [] feel = "hot" ->
           IF nuance = "humid" THEN "Tropical jungle heat - welcome to the steam room"
           ELSE IF nuance = "breezy" THEN "Hot with a breeze - still hot, but at least it's trying"
           ELSE "Hot and dry - sun-baked and sharp"
      [] OTHER -> "Comfort unknown"

comfortEmoji(feel) ==
    CASE feel = "biting" -> "cold-face"
      [] feel = "cold"   -> "snowflake"
      [] feel = "chilly" -> "coat"
      [] feel = "cool"   -> "leaves"
      [] feel = "mild"   -> "smile"
      [] feel = "warm"   -> "sun-small-cloud"
      [] feel = "hot"    -> "fire"
      [] OTHER           -> "thermometer"

\* getComfortCategory(temp, dew, gust, precip = 0) of the earlier engine;
\* `clock` is the instant its own `new Date()` gives.  The text is the list
\* of the parts the source joins with a dash.
getComfortCategory_part001(temp, dew, gust, precip, clock) ==
    LET hour  == getHours(clock)
        month == getMonth(dayOf(clock))
        isGoldilocks ==
            /\ FracGe(temp, 68) /\ FracLe(temp, 74)
            /\ FracGe(dew, 45) /\ FracLe(dew, 52)
            /\ gust < 15
            /\ precip < 2
        feel == IF FracLe(temp, 25) THEN "biting"
                ELSE IF FracLe(temp, 40) THEN "cold"
                ELSE IF FracLe(temp, 48) THEN "chilly"
                ELSE IF FracLe(temp, 58) THEN "cool"
                ELSE IF FracLe(temp, 70) THEN "mild"
                ELSE IF FracLe(temp, 82) THEN "warm"
                ELSE "hot"
        dewNuance == IF FracGe(dew, 65) THEN "humid"
                     ELSE IF FracLt(dew, 40) THEN "crisp" ELSE ""
        nuance == IF gust >= 30 THEN "windy"
                  ELSE IF gust >= 20 THEN "breezy" ELSE dewNuance
        personality == getPersonalityPhrase(feel, nuance)
        normal == IF hour < 11 \/ hour >= 18
                  THEN NORMAL_LOWS[month + 1] ELSE NORMAL_HIGHS[month + 1]
        \* diff = temp - normal, as a multiple of 1 / temp.den
        diff == temp.num - normal * temp.den
    IN  IF isGoldilocks
        THEN [text |-> <<"Goldilocks - just right.">>, emoji |-> "star"]
        ELSE IF diff > 10 * temp.den
        THEN [text  |-> <<personality, "unusually warm for " \o monthName(month)>>,
              emoji |-> comfortEmoji(feel)]
        ELSE IF diff < -10 * temp.den
        THEN [text  |-> <<personality, "much colder than normal for " \o monthName(month)>>,
              emoji |-> comfortEmoji(feel)]
        ELSE [text |-> <<personality>>, emoji |-> comfortEmoji(feel)]

describePrecip(precipTotal, snowTotal) ==
    IF snowTotal > 5
    THEN IF snowTotal >= 200 THEN "notable snow"
         ELSE IF snowTotal >= 50 THEN "light accumulating snow"
         ELSE "flurries or very light snow"
    ELSE IF precipTotal < 2 THEN "mainly dry"
    ELSE IF precipTotal < 10 THEN "a few light showers"
    ELSE IF precipTotal < 25 THEN "on-and-off showers"
    ELSE IF precipTotal < 75 THEN "a soaking rain at times"
    ELSE "periods of heavy rain"

describeWind(gustMax) ==
    IF gustMax >= 40 THEN "very windy"
    ELSE IF gustMax >= 30 THEN "quite gusty"
    ELSE IF gustMax >= 20 THEN "breezy at times"
    ELSE IF gustMax >= 10 THEN "a light breeze"
    ELSE "generally light wind"

describeTempRange(stats) ==
    IF stats.min = null \/ stats.max = null THEN "temperature details unavailable"
    ELSE IF stats.max <= 40 THEN "a cold day overall"
    ELSE IF stats.max <= 55 THEN "a cool day overall"
    ELSE IF stats.max <= 72 THEN "a mild day overall"
    ELSE IF stats.max <= 82 THEN "a warm day overall"
    ELSE "a hot day overall"

\* What getHumanActionOutlook returns for an empty index list.
NoDataOutlook ==
    [badge    |-> [text |-> "No data", class |-> "badge-neutral"],
     emoji    |-> "question",
     headline |-> "Tomorrow's outlook is unavailable",
     text     |-> <<"We couldn't find a usable forecast window for tomorrow.">>]

\* The part of getHumanActionOutlook that follows the window: `indices` is
\* what getTomorrowWindow returned and `clock` the instant getComfortCategory
\* reads.  The text is the list of the phrases the source strings together.
outlookOfWindow(h, indices, clock) ==
    LET win         == sliceHourly(h, indices)
        tempStats   == getTempStats(win)
        dewStats    == getDewStats(win)
        windStats   == getWindGustStats(win)
        precipTotal == getPrecipTotal(win)
        snowTotal   == getSnowTotal(win)
        avgTemp     == IF tempStats.avg # NoMean THEN tempStats.avg
                       ELSE IF tempStats.max # null THEN Frac(tempStats.max)
                       ELSE IF tempStats.min # null THEN Frac(tempStats.min)
                       ELSE NoMean
        avgDew      == IF dewStats.avg # NoMean THEN dewStats.avg
                       ELSE IF avgTemp # NoMean THEN avgTemp ELSE Frac(50)
        gustMax     == Coalesce(windStats.max, 0)
        comfort     == IF avgTemp # NoMean
                       THEN getComfortCategory_part001(avgTemp, avgDew, gustMax,
                                                       precipTotal, clock)
                       ELSE [text |-> <<"Comfort unknown">>, emoji |-> "question"]
        precipDesc  == describePrecip(precipTotal, snowTotal)
        windDesc    == describeWind(gustMax)
        tempDesc    == describeTempRange(tempStats)
        isGoldilocks == comfort.text[1] = "Goldilocks - just right."
        Out(text, class, emoji, headline, detail) ==
            [badge |-> [text |-> text, class |-> class], emoji |-> emoji,
             headline |-> headline, text |-> detail]
        r0 == Out("Easy Day", "badge-easy", "smile",
                  "A fairly straightforward day ahead.",
                  <<tempDesc, precipDesc, windDesc>> \o comfort.text)
        r1 == IF isGoldilocks
              THEN Out("Goldilocks Day", "badge-goldilocks", "star",
                       "Just right - a Goldilocks kind of day.",
                       comfort.text \o (IF precipDesc # "mainly dry"
                                        THEN <<"Also", precipDesc>> ELSE <<>>))
              ELSE r0
        r2 == IF ~isGoldilocks /\ precipTotal >= 25 /\ snowTotal = 0
              THEN Out("Rain Gear", "badge-rain", "rain-cloud",
                       "Have rain gear handy tomorrow.",
                       <<precipDesc, windDesc>> \o comfort.text)
              ELSE r1
        r3 == IF ~isGoldilocks /\ snowTotal > 5
              THEN Out("Snow Impact", "badge-snow", "snowflake",
                       "Snow may impact your plans.",
                       <<precipDesc, windDesc>> \o comfort.text)
              ELSE r2
        r4 == IF ~isGoldilocks /\ gustMax >= 30
              THEN Out("Wind Alert", "badge-wind", "dash",
                       "It will be quite windy at times.",
                       <<windDesc, precipDesc>> \o comfort.text)
              ELSE r3
        r5 == IF /\ ~isGoldilocks /\ precipTotal < 10 /\ snowTotal = 0 /\ gustMax < 20
                 /\ avgTemp # NoMean /\ FracGe(avgTemp, 55) /\ FracLe(avgTemp, 78)
              THEN Out("Easy Outdoor Day", "badge-easy", "sun-small-cloud",
                       "A great day to be outside.", <<tempDesc>> \o comfort.text)
              ELSE r4
    IN  r5

\* getHumanActionOutlook of the earlier engine: clockWindow is the instant
\* getTomorrowWindow reads, clockComfort the one getComfortCategory reads.
getHumanActionOutlook_part001(h, clockWindow, clockComfort) ==
    LET indices == getTomorrowWindow_part001(h, clockWindow)
    IN  IF Len(indices) = 0 THEN NoDataOutlook
        ELSE outlookOfWindow(h, indices, clockComfort)

----------------------------------------------------------------------------
(* The earlier engine at work: hours are delivered, the clock advances by  *)
(* the hour, alerts are asked for, and an outlook call runs in two steps,  *)
(* one for each statement that reads the clock.                            *)

MaxClock == 25   \* the last instant the clock reaches: 01:00 of day 1

Part001Hours ==
    { Hour(70, 48, 0, 0, 10, 3, 180),              \* mild, calm and dry
      Hour(60, 48, 0, 0, 45, 3, 270),              \* cool with gale gusts
      Hour(60, 55, 50, 0, 35, 0, 180),             \* rain driven by gusts
      Hour(30, 28, 0, 150, 5, 0, 300),             \* an inch and a half of snow
      Hour(90, 70, 0, 0, 10, 8, 180),              \* hot and humid
      Hour(null, null, null, null, null, null, null) }  \* nothing reported

\* 17:00 and 23:00 of day 0 (April 30).
InitPart001 ==
    /\ hourly = EmptySeries
    /\ now \in {17, 23}
    /\ call = NoCall

Running == call.fn = "getHumanActionOutlook:running"

\* No hour arrives while a call is running.
AppendHourPart001 == ~Running /\ Deliver(Part001Hours, MaxLen)

Tick ==
    /\ now < MaxClock
    /\ now' = now + 1
    /\ UNCHANGED <<hourly, call>>

GetForecastAlertsPart001 ==
    /\ ~Running
    /\ call' = [fn  |-> "getForecastAlerts", arg |-> <<now>>,
                ret |-> getForecastAlerts_part001(hourly, now)]
    /\ UNCHANGED <<hourly, now>>

\* getHumanActionOutlook up to its first statement: getTomorrowWindow reads
\* the clock; an empty index list is answered at once.
EnterHumanActionOutlook ==
    /\ ~Running
    /\ LET indices == getTomorrowWindow_part001(hourly, now)
       IN  call' = IF Len(indices) = 0
                   THEN [fn |-> "getHumanActionOutlook", arg |-> <<now>>,
                         ret |-> NoDataOutlook]
                   ELSE [fn |-> "getHumanActionOutlook:running", arg |-> <<now>>,
                         ret |-> indices]
    /\ UNCHANGED <<hourly, now>>

\* The rest of the call: the statistics of the slice, and getComfortCategory,
\* which reads the clock again.
LeaveHumanActionOutlook ==
    /\ Running
    /\ call' = [fn  |-> "getHumanActionOutlook", arg |-> call.arg,
                ret |-> outlookOfWindow(hourly, call.ret, now)]
    /\ UNCHANGED <<hourly, now>>

NextPart001 ==
    \/ AppendHourPart001
    \/ Tick
    \/ GetForecastAlertsPart001
    \/ EnterHumanActionOutlook
    \/ LeaveHumanActionOutlook

SpecPart001 == InitPart001 /\ [][NextPart001]_vars

----------------------------------------------------------------------------
(* Window functions called on their own, on series whose timestamps come   *)
(* in any order.                                                           *)

\* clamp(value, min, max) == Math.min(max, Math.max(min, value))
clamp(value, min, max) == Min2(max, Max2(min, value))

getRelativeWindow(h, offsetStartHours, offsetEndHours) ==
    LET len   == Len(h.time)
        start == clamp(offsetStartHours, 0, len)
        end   == clamp(offsetEndHours, 0, len)
    IN  [start |-> start, end |-> Max2(start, end)]

\* getCalendarDayWindow of src/unnamed/part_000: past the empty-series
\* return it calls targetDate.getFullFullYear, which no Date has, and the
\* call throws TypeError before the loop is reached.
getCalendarDayWindow_part000(h, targetDate) ==
    IF Len(h.time) = 0 THEN [threw |-> "no", start |-> 0, end |-> 0]
    ELSE [threw |-> "TypeError", start |-> null, end |-> null]

MaxOffset == 4   \* offsets of getRelativeWindow range over -1 .. MaxOffset

WindowDays == {1, 2, 3}

WindowHours ==
    { Hour(60, 48, 0, 0, 45, 3, 270),              \* cool with gale gusts
      Hour(null, null, null, null, null, null, null) }  \* nothing reported

\* The provider delivers one more hour; nothing orders the timestamps.
AppendAnyHour ==
    /\ Len(hourly.time) < MaxLen
    /\ \E day \in WindowDays, smp \in WindowHours :
          hourly' = withHour(hourly, day, smp)
    /\ call' = NoCall
    /\ UNCHANGED now

GetCalendarDayWindow ==
    /\ \E targetDate \in WindowDays :
          call' = [fn  |-> "getCalendarDayWindow", arg |-> <<targetDate>>,
                   ret |-> getCalendarDayWindow(hourly, targetDate)]
    /\ UNCHANGED <<hourly, now>>

GetCalendarDayWindowPart000 ==
    /\ \E targetDate \in WindowDays :
          call' = [fn  |-> "getCalendarDayWindow", arg |-> <<targetDate>>,
                   ret |-> getCalendarDayWindow_part000(hourly, targetDate)]
    /\ UNCHANGED <<hourly, now>>

GetTomorrowWindow ==
    /\ call' = [fn  |-> "getTomorrowWindow", arg |-> <<>>,
                ret |-> getTomorrowWindow(hourly, now)]
    /\ UNCHANGED <<hourly, now>>

GetRelativeWindow ==
    /\ \E a, b \in -1..MaxOffset :
          call' = [fn  |-> "getRelativeWindow", arg |-> <<a, b>>,
                   ret |-> getRelativeWindow(hourly, a, b)]
    /\ UNCHANGED <<hourly, now>>

NextWindows ==
    \/ AppendAnyHour
    \/ GetCalendarDayWindow
    \/ GetCalendarDayWindowPart000
    \/ GetTomorrowWindow
    \/ GetRelativeWindow
    \/ GetForecastAlerts

SpecWindows == Init /\ [][NextWindows]_vars

----------------------------------------------------------------------------
(* Aggregation over a window: summarizeTemps, the mean, and the slices     *)
(* the helpers are fed                                                     *)

\* A JavaScript number is a binary floating-point number: every sum and
\* every quotient is rounded to the nearest representable number, a tie
\* going to the even significand.  The model keeps that rounding on a
\* significand of SignificandBits bits (the engine's has 53) whose finest
\* spacing is one unit; a reading whose significand is full, such as 30.1
\* in the engine, is here a reading such as 14.
SignificandBits == 4

RECURSIVE Pow2(_)
Pow2(n) == IF n = 0 THEN 1 ELSE 2 * Pow2(n - 1)

\* The spacing of the representable numbers around num / den.
RECURSIVE Ulp(_, _, _)
Ulp(num, den, s) ==
    IF num < Pow2(SignificandBits) * s * den THEN s ELSE Ulp(num, den, 2 * s)

\* num / den (num >= 0, den > 0) rounded to nearest, ties to even.
RoundMagnitude(num, den) ==
    LET s == Ulp(num, den, 1)
        d == den * s
        m == num \div d
        r == num % d
    IN  IF 2 * r < d THEN m * s
        ELSE IF 2 * r > d THEN (m + 1) * s
        ELSE IF m % 2 = 0 THEN m * s ELSE (m + 1) * s

RoundNearestEven(num, den) ==
    IF num < 0 THEN 0 - RoundMagnitude(0 - num, den)
    ELSE RoundMagnitude(num, den)

\* sum += v over the numbers of values, in order.
RECURSIVE avgSum(_, _, _)
avgSum(values, k, sum) ==
    IF k > Len(values) THEN sum
    ELSE IF IsNum(values[k])
         THEN avgSum(values, k + 1, RoundNearestEven(sum + values[k], 1))
         ELSE avgSum(values, k + 1, sum)

\* avg: count > 0 ? sum / count : null.
avg(values) ==
    LET count == Len(SelectSeq(values, IsNum))
    IN  IF count > 0 THEN RoundNearestEven(avgSum(values, 1, 0), count)
        ELSE null

\* The temps array of summarizeTemps: the valid temperatures of the
\* window, in the order of the loop.
validTemps(tempArr, start, end) ==
    LET read == [k \in 1..(end - start) |-> safeNum(tempArr, start + k - 1)]
    IN  SelectSeq(read, LAMBDA t : t # null)

summarizeTemps(h, start, end) ==
    LET temps == validTemps(h.temperature_2m, start, end)
        seen  == {temps[k] : k \in 1..Len(temps)}
    IN  IF Len(temps) = 0
        THEN [minTemp |-> null, maxTemp |-> null, avgTemp |-> null, count |-> 0]
        ELSE [minTemp |-> SetMin(seen), maxTemp |-> SetMax(seen),
              avgTemp |-> avg(temps), count |-> Len(temps)]

MaxIndices == 3     \* indices handed to sliceHourly in one call

\* The hours a series is aggregated over: two readings with every
\* measurement, an hour without any, and an hour whose temperature, rain,
\* gust and UV index are not numbers while dewpoint and snowfall are.
AggregateHours ==
    { Hour(14, 10, 3, 0, 12, 2, 180),
      Hour(13, 9, 18, 5, 30, 1, 270),
      Hour(null, null, null, null, null, null, null),
      Hour(NaN, 11, NaN, 7, NaN, NaN, 90) }

AppendAggregateHour ==
    /\ Len(hourly.time) < MaxLen
    /\ \E smp \in AggregateHours : hourly' = withHour(hourly, 1, smp)
    /\ call' = NoCall
    /\ UNCHANGED now

\* The helpers are called on a series as it was delivered: the record of
\* a call is dropped when the next hour arrives.
Delivered == call = NoCall

\* The windows [start, end) of the series in hand.
Windows ==
    {w \in (0..Len(hourly.time)) \X (0..Len(hourly.time)) : w[1] <= w[2]}

AccumulatePrecip ==
    /\ Delivered
    /\ \E w \in Windows :
          call' = [fn |-> "accumulatePrecip", arg |-> w,
                   ret |-> accumulatePrecip(hourly, w[1], w[2])]
    /\ UNCHANGED <<hourly, now>>

SummarizeTemps ==
    /\ Delivered
    /\ \E w \in Windows :
          call' = [fn |-> "summarizeTemps", arg |-> w,
                   ret |-> summarizeTemps(hourly, w[1], w[2])]
    /\ UNCHANGED <<hourly, now>>

SummarizeWindGusts ==
    /\ Delivered
    /\ \E w \in Windows :
          call' = [fn |-> "summarizeWindGusts", arg |-> w,
                   ret |-> summarizeWindGusts(hourly, w[1], w[2])]
    /\ UNCHANGED <<hourly, now>>

SummarizeDewAndUV ==
    /\ Delivered
    /\ \E w \in Windows :
          call' = [fn |-> "summarizeDewAndUV", arg |-> w,
                   ret |-> summarizeDewAndUV(hourly, w[1], w[2])]
    /\ UNCHANGED <<hourly, now>>

\* Index lists: any order, repeats allowed, one index past the end too.
IndexLists ==
    UNION {[1..n -> 0..Len(hourly.time)] : n \in 0..MaxIndices}

SliceHourly ==
    /\ Delivered
    /\ \E indices \in IndexLists :
          call' = [fn |-> "sliceHourly", arg |-> <<indices>>,
                   ret |-> sliceHourly(hourly, indices)]
    /\ UNCHANGED <<hourly, now>>

NextAggregate ==
    \/ AppendAggregateHour
    \/ AccumulatePrecip
    \/ SummarizeTemps
    \/ SummarizeWindGusts
    \/ SummarizeDewAndUV
    \/ SliceHourly

SpecAggregate == Init /\ [][NextAggregate]_vars

----------------------------------------------------------------------------
(* getComfortCategory over the year *)

\* Temperatures from far under the lowest normal high to far over the
\* highest; dewpoints and winds on both sides of every nuance threshold.
ComfortTemps == 25..105
ComfortDews  == {25, 50, 70}
ComfortWinds == {10, 30, 40}
Months       == 0..11

\* The function keeps nothing between calls: one call per behaviour
\* covers every input.
GetComfortCategoryInMonth ==
    /\ call = NoCall
    /\ \E temp \in ComfortTemps, dew \in ComfortDews, wind \in ComfortWinds,
          month \in Months :
          call' = [fn  |-> "getComfortCategory",
                   arg |-> <<temp, dew, wind, DateIn(month)>>,
                   ret |-> getComfortCategory(temp, dew, wind, DateIn(month), now)]
    /\ UNCHANGED <<hourly, now>>

NextComfort == GetComfortCategoryInMonth

SpecComfort == Init /\ [][NextComfort]_vars

----------------------------------------------------------------------------
(* getComfortCategory, both variants, on the same readings *)

\* The variant of src/unnamed/part_001: its fourth argument is a number,
\* the precipitation (here 0), and the clock is read inside.
GetComfortCategoryPart001 ==
    /\ call = NoCall
    /\ \E temp \in ComfortTemps, dew \in ComfortDews, gust \in ComfortWinds :
          call' = [fn  |-> "getComfortCategory",
                   arg |-> <<temp, dew, gust, NumberArg>>,
                   ret |-> getComfortCategory_part001(Frac(temp), Frac(dew), gust, 0, now)]
    /\ UNCHANGED <<hourly, now>>

NextNuance ==
    \/ GetComfortCategoryInMonth
    \/ GetComfortCategoryPart001

\* The clock is an instant, as in SpecPart001; the variant of
\* src/forecast-intel.js is handed its date.
SpecNuance == InitPart001 /\ [][NextNuance]_vars

----------------------------------------------------------------------------
(* Pattern detection over a window: analyzeQPF, analyzeThermalProfile,     *)
(* detectMicroclimates                                                     *)

\* Hours that carry one sign of a pattern each, and hours that carry all.
PatternHours ==
    { Hour(30, 28, 0, 8, 20, 0, 300),    \* cold upslope flurries on a NW gust
      Hour(50, 40, 0, 0, 5, 0, 300),     \* NW wind, mild and dry
      Hour(30, 28, 0, 0, 5, 3, 180),     \* cold, calm and dry
      Hour(40, 38, 0, 8, 5, 0, 180),     \* wet flakes above 36F
      Hour(33, 32, 3, 0, 12, 0, 50),     \* wet-bulb 32.5F on a light NE wind
      Hour(30, 28, 0, 150, 5, 0, 300),   \* heavy upslope snow, hardly a gust
      Hour(40, 38, 0, 8, 20, 0, 180),    \* wet flakes on a southerly gust
      Hour(null, null, null, null, null, null, null) }  \* nothing reported

AppendPatternHour ==
    /\ Len(hourly.time) < MaxLen
    /\ \E smp \in PatternHours : hourly' = withHour(hourly, 1, smp)
    /\ call' = NoCall
    /\ UNCHANGED now

AnalyzeQPF ==
    /\ Delivered
    /\ \E w \in Windows :
          call' = [fn |-> "analyzeQPF", arg |-> w,
                   ret |-> analyzeQPF(hourly, w[1], w[2])]
    /\ UNCHANGED <<hourly, now>>

AnalyzeThermalProfile ==
    /\ Delivered
    /\ \E w \in Windows :
          call' = [fn |-> "analyzeThermalProfile", arg |-> w,
                   ret |-> analyzeThermalProfile(hourly, w[1], w[2])]
    /\ UNCHANGED <<hourly, now>>

DetectMicroclimates ==
    /\ Delivered
    /\ \E w \in Windows :
          call' = [fn |-> "detectMicroclimates", arg |-> w,
                   ret |-> detectMicroclimates(hourly, w[1], w[2])]
    /\ UNCHANGED <<hourly, now>>

NextPatterns ==
    \/ AppendPatternHour
    \/ AnalyzeQPF
    \/ AnalyzeThermalProfile
    \/ DetectMicroclimates

SpecPatterns == Init /\ [][NextPatterns]_vars

----------------------------------------------------------------------------
(* detectGoldilocks on the analyses of a window *)

GoldilocksHours ==
    { Hour(70, 48, 0, 0, 10, 3, 180),    \* the ideal hour
      Hour(40, 38, 0, 0, 10, 3, 180),    \* a cool morning hour
      Hour(70, 48, 0, 0, 22, 3, 180),    \* ideal but for a 22 mph gust
      Hour(70, 48, 0, 0, 40, 3, 180),    \* ideal but for a ridge-top gust
      Hour(70, 62, 10, 0, 10, 3, 180),   \* muggy, with a tenth of an inch of rain
      Hour(70, null, 0, 0, 40, 3, 180),  \* no dewpoint reported, ridge-top gust
      Hour(80, 48, 0, 0, 10, 8, 180),    \* warm under a high UV index
      Hour(null, null, null, null, null, null, null) }  \* nothing reported

AppendGoldilocksHour == Deliver(GoldilocksHours, MaxLen)

\* detectGoldilocks as getHumanActionOutlook calls it: on the five
\* analyses of one window.  The result is kept under `type`.
goldilocksOfWindow(h, start, end) ==
    detectGoldilocks(analyzeQPF(h, start, end),
                     analyzeThermalProfile(h, start, end),
                     summarizeWindGusts(h, start, end),
                     summarizeDewAndUV(h, start, end),
                     detectMicroclimates(h, start, end))

DetectGoldilocks ==
    /\ Delivered
    /\ \E w \in Windows :
          call' = [fn |-> "detectGoldilocks", arg |-> w,
                   ret |-> [type |-> goldilocksOfWindow(hourly, w[1], w[2])]]
    /\ UNCHANGED <<hourly, now>>

NextGoldilocks ==
    \/ AppendGoldilocksHour
    \/ DetectGoldilocks
    \/ GetHumanActionOutlook

SpecGoldilocks == Init /\ [][NextGoldilocks]_vars

----------------------------------------------------------------------------
(* describeTempSwing *)

\* a - b on two means or extremes (null is 0), rounded as every difference
\* of two numbers is.
Difference(a, b) == RoundNearestEven(ToNum(a) - ToNum(b), 1)

\* The JavaScript null result is the string "null" here.
describeTempSwing(h, start, end, thermal) ==
    LET temps == h.temperature_2m
        \* temps.slice(start, end).filter(t => t != null): NaN stays
        slice == SelectSeq([k \in 1..(end - start) |-> At(temps, start + k - 1)],
                           LAMBDA t : t # null)
        n            == Len(slice)
        morning      == SubSeq(slice, 1, Min2(6, n))
        afternoon    == SubSeq(slice, 11, Min2(18, n))
        evening      == SubSeq(slice, Max2(1, n - 5), n)
        morningAvg   == avg(morning)
        afternoonAvg == avg(afternoon)
        eveningAvg   == avg(evening)
        rise         == Difference(afternoonAvg, morningAvg)
        drop         == Difference(afternoonAvg, eveningAvg)
    IN  IF n < 4 THEN "null"
        ELSE IF JsGt(morningAvg, afternoonAvg) /\ JsGt(afternoonAvg, eveningAvg)
             THEN "temperatures fall steadily through the day"
        ELSE IF JsGt(morningAvg, afternoonAvg) /\ rise < -8
             THEN "turning colder through the afternoon"
        ELSE IF drop >= 15 /\ rise < 5
             THEN "warm early, dropping sharply after midday"
        ELSE IF rise >= 20 /\ drop < 10
             THEN "cold morning, much warmer afternoon"
        ELSE IF rise >= 15 /\ drop >= 15
             THEN "big temperature swing - cold early, warm later, then colder again"
        ELSE IF Difference(thermal.maxTemp, thermal.minTemp) >= 22
             THEN "big temperature swings"
        ELSE "null"

MaxSwingLen == 11   \* hours in a series handed to describeTempSwing

\* A day at a steady 16 degrees, with hours whose reading is missing.
SteadyHours ==
    { Hour(16, 10, 0, 0, 5, 3, 180),
      Hour(null, null, null, null, null, null, null) }

AppendSteadyHour ==
    /\ Len(hourly.time) < MaxSwingLen
    /\ \E smp \in SteadyHours : hourly' = withHour(hourly, 1, smp)
    /\ call' = NoCall
    /\ UNCHANGED now

\* describeTempSwing as getHumanActionOutlook calls it, with the thermal
\* profile of the same window; the phrase is kept under `phrase`.
DescribeTempSwing ==
    /\ Delivered
    /\ \E w \in Windows :
          call' = [fn |-> "describeTempSwing", arg |-> w,
                   ret |-> [phrase |->
                              describeTempSwing(hourly, w[1], w[2],
                                  analyzeThermalProfile(hourly, w[1], w[2]))]]
    /\ UNCHANGED <<hourly, now>>

NextSwing ==
    \/ AppendSteadyHour
    \/ DescribeTempSwing

SpecSwing == Init /\ [][NextSwing]_vars

----------------------------------------------------------------------------
(* Action recommendations and the "Plan to ..." sentence *)

\* The actions in the order buildActionList pushes them.  The dash of the
\* layers action is written "-".
buildActionList(qpf, thermal, wind, dew, uv, micro) ==
    LET When(c, list) == IF c THEN list ELSE <<>>
    IN  When(JsGe(qpf.rainTotal, 10),
             <<"carry an umbrella", "wear waterproof shoes or a rain jacket">>)
     \o When(JsGe(qpf.snowTotal, 10),
             <<"allow extra travel time", "use caution on bridges and overpasses",
               "dress warmly">>)
     \o When(thermal.minTemp # null /\ JsLe(thermal.minTemp, 35),
             <<"dress warmly in layers", "wear gloves and a hat">>)
     \o When(thermal.maxTemp # null /\ JsGe(thermal.maxTemp, 82),
             <<"stay hydrated", "wear light clothing">>)
     \o When(JsGe(dew.maxDew, 65), <<"take breaks if outdoors">>)
     \o When(JsGe(uv, 6), <<"apply sunscreen", "wear a hat or sunglasses">>)
     \o When(JsGe(wind.maxGust, 30), <<"secure loose items">>)
     \o When(micro.layersDay,
             <<"dress in layers - big temperature swings expected">>)
     \o When(micro.nwFlowSnow,
             <<"watch for slick spots on the Blue Ridge Parkway">>)
     \o When(micro.cad,
             <<"be alert for freezing drizzle in sheltered valleys">>)
     \o When(micro.ridgeWinds, <<"expect stronger winds on ridgelines">>)

\* [...new Set(list)]: the first occurrence of each element, in order.
RECURSIVE Distinct(_)
Distinct(list) ==
    IF list = <<>> THEN <<>>
    ELSE LET init == Distinct(SubSeq(list, 1, Len(list) - 1))
             last == list[Len(list)]
         IN  IF \E k \in 1..Len(init) : init[k] = last THEN init
             ELSE Append(init, last)

isPriority(a) ==
    includes(a, "travel") \/ includes(a, "secure") \/ includes(a, "dress warmly")

\* buildHumanActionText up to finalActions, the actions its sentence
\* "Plan to <a> and <b>." joins; an empty list gives no sentence.
finalActions(actions) ==
    LET cleaned  == Distinct(actions)
        merged   == [k \in 1..Len(cleaned) |->
                       IF includes(cleaned[k], "dress warmly")
                          \/ includes(cleaned[k], "dress in layers")
                       THEN "dress warmly in layers" ELSE cleaned[k]]
        deduped  == Distinct(merged)
        priority == SelectSeq(deduped, isPriority)
    IN  IF Len(priority) >= 2 THEN SubSeq(priority, 1, 2)
        ELSE SubSeq(deduped, 1, Min2(2, Len(deduped)))

\* The action list getHumanActionOutlook builds for a window.
actionsOfWindow(h, start, end) ==
    buildActionList(analyzeQPF(h, start, end),
                    analyzeThermalProfile(h, start, end),
                    summarizeWindGusts(h, start, end),
                    summarizeDewAndUV(h, start, end),
                    summarizeDewAndUV(h, start, end).maxUV,
                    detectMicroclimates(h, start, end))

BuildHumanActionText ==
    /\ Delivered
    /\ \E w \in Windows :
          LET actions == actionsOfWindow(hourly, w[1], w[2])
          IN  call' = [fn  |-> "buildHumanActionText",
                       arg |-> <<actions>>,
                       ret |-> [finalActions |-> finalActions(actions)]]
    /\ UNCHANGED <<hourly, now>>

NextActions ==
    \/ AppendHour
    \/ BuildHumanActionText

SpecActions == Init /\ [][NextActions]_vars

----------------------------------------------------------------------------
(* Properties *)

IsOutlook == call.fn = "getHumanActionOutlook"
IsAlerts  == call.fn = "getForecastAlerts"
IsComfort == call.fn = "getComfortCategory"

\* What getHumanActionOutlook computes on the series and clock of this state.
Analysis == outlookAnalysis(hourly, now)

\* Every precipitation and snowfall sample of the outlook's window is a number
\* or absent, so that both totals are plain sums.
ValidPrecipWindow ==
    LET w == Analysis.window
    IN  \A i \in Loop(w.start, w.end) :
            At(hourly.precipitation, i) # NaN /\ At(hourly.snowfall, i) # NaN

WeatherBadges ==
    {"Goldilocks", "Stormy", "Rainy", "Mixed", "Snowy", "Windy", "Hot", "Cold", "Dry"}

\* C1 - whenever the tomorrow window's snow severity is >= 2, the outlook
\* shows the snow badge and the snow emoji, whatever else holds in the
\* window.  (Stated over windows of valid samples.)
C1_SnowBranchWins ==
    (IsOutlook /\ ValidPrecipWindow /\ Analysis.qpf.snow.severity >= 2)
        => (call.ret.badge.text = "Snowy" /\ call.ret.emoji = "snow-cloud")

\* C2 - whenever rain severity is >= 4 with snow severity < 2, no NW-flow
\* snow and no freezing drizzle, the outlook shows a rain or storm badge and
\* emoji, also when gusts reach 30 mph; no lower branch is selected.
C2_RainBranchWins ==
    (/\ IsOutlook /\ ValidPrecipWindow
     /\ Analysis.qpf.rain.severity >= 4
     /\ Analysis.qpf.snow.severity < 2
     /\ ~Analysis.qpf.nwFlowSnow /\ ~Analysis.micro.nwFlowSnow
     /\ ~Analysis.thermal.freezingDrizzle)
        => (/\ call.ret.badge.text \in {"Rainy", "Stormy"}
            /\ call.ret.emoji \in {"rain-cloud", "thunderstorm"})

\* C3 - when the window's maximum gust is >= 40 mph and all else is calm
\* (no rain, no snow, no convective spike, maximum temperature below 85 and
\* minimum above 35), the outlook shows the Windy badge and the wind emoji,
\* for maximum temperatures in 68..74 as for any other.
C3_WindBranchOnCalmDay ==
    (/\ IsOutlook
     /\ Analysis.wind.maxGust >= 40
     /\ Analysis.qpf.rainTotal = 0 /\ Analysis.qpf.snowTotal = 0
     /\ ~Analysis.qpf.convective
     /\ Analysis.thermal.minTemp # null
     /\ Analysis.thermal.minTemp > 35 /\ Analysis.thermal.maxTemp < 85)
        => (call.ret.badge.text = "Windy" /\ call.ret.emoji = "dash")

\* C4 - for a series with no hours, or when the window is empty, the outlook
\* is the neutral "no data" result, never a weather category, and the alert
\* list is empty.
C4_EmptyWindowIsNoData ==
    /\ (IsOutlook /\ Analysis.window.start = Analysis.window.end)
          => call.ret.badge.text \notin WeatherBadges
    /\ (IsAlerts /\ Len(hourly.time) = 0) => call.ret = <<>>

\* C5 - when the window holds no valid temperature sample, the cold flag is
\* false and the badge is not Cold.
C5_NoTemperatureIsNotCold ==
    (IsOutlook /\ Analysis.thermal.minTemp = null)
        => (~Analysis.flags.cold /\ call.ret.badge.text # "Cold")

\* C6 - in the outlook and alert pipelines the rain and snow totals that are
\* classified equal the sums of the window's valid numeric samples and are
\* never NaN.
C6_TotalsSkipInvalidSamples ==
    LET w     == IF IsAlerts THEN alertWindow(hourly) ELSE Analysis.window
        qpf   == analyzeQPF(hourly, w.start, w.end)
        valid == accumulatePrecip(hourly, w.start, w.end)
    IN  (IsOutlook \/ IsAlerts)
            => /\ qpf.rainTotal # NaN /\ qpf.snowTotal # NaN
               /\ qpf.rainTotal = valid.rainTotal
               /\ qpf.snowTotal = valid.snowTotal

\* The severity the rain table gives a total t (hundredths of an inch):
\* 0 below 0.01, 1 below 0.05, 2 below 0.15, 3 below 0.40, 4 below 0.75,
\* 5 below 1.25, 6 from 1.25.
RainBucket(k, t) ==
    CASE k = 0 -> t < 1
      [] k = 1 -> 1 <= t /\ t < 5
      [] k = 2 -> 5 <= t /\ t < 15
      [] k = 3 -> 15 <= t /\ t < 40
      [] k = 4 -> 40 <= t /\ t < 75
      [] k = 5 -> 75 <= t /\ t < 125
      [] k = 6 -> 125 <= t

RainTypes ==
    <<"none", "trace", "spotty", "light", "steady", "soaking", "heavy">>

\* C7 - classifyRain(t) returns the severity and type of the one bucket of
\* the rain table that holds t, and no smaller total gets a higher severity.
C7_RainBuckets ==
    call.fn = "classifyRain" =>
        LET t == call.arg[1]
            k == call.ret.severity
        IN  /\ k \in 0..6
            /\ {j \in 0..6 : RainBucket(j, t)} = {k}
            /\ call.ret.type = RainTypes[k + 1]
            /\ \A u \in 0..t : classifyRain(u).severity <= k

\* classifyRain was called on the 0.40in breakpoint and answered "steady".
C7_Witness ==
    call.fn = "classifyRain" /\ call.arg[1] = 40 /\ call.ret.severity = 4

\* The severity the snow table gives a total s: 0 below 0.05, 1 below 0.10,
\* 2 below 0.50, 3 below 1.0, 4 below 3.0, 5 below 6.0, 6 from 6.0.
SnowBucket(k, t) ==
    CASE k = 0 -> t < 5
      [] k = 1 -> 5 <= t /\ t < 10
      [] k = 2 -> 10 <= t /\ t < 50
      [] k = 3 -> 50 <= t /\ t < 100
      [] k = 4 -> 100 <= t /\ t < 300
      [] k = 5 -> 300 <= t /\ t < 600
      [] k = 6 -> 600 <= t

SnowTypes ==
    <<"none", "flurries", "dusting", "light", "accumulating", "plowable",
      "significant">>

\* C8 - classifySnow(s) returns the severity and type of the one bucket of
\* the snow table that holds s, and no smaller total gets a higher severity.
C8_SnowBuckets ==
    call.fn = "classifySnow" =>
        LET t == call.arg[1]
            k == call.ret.severity
        IN  /\ k \in 0..6
            /\ {j \in 0..6 : SnowBucket(j, t)} = {k}
            /\ call.ret.type = SnowTypes[k + 1]
            /\ \A u \in 0..t : classifySnow(u).severity <= k

\* classifySnow was called on the 3.0in breakpoint and answered "plowable".
C8_Witness ==
    call.fn = "classifySnow" /\ call.arg[1] = 300 /\ call.ret.severity = 5

\* C9 as stated - a rain total of 0.30in is classified severity 4, "steady".
C9_ThirtyIsSteady ==
    (call.fn = "classifyRain" /\ call.arg[1] = 30)
        => (call.ret.severity = 4 /\ call.ret.type = "steady")

\* C9 as amended - a rain total of 0.30in is classified severity 3, "light";
\* severity 4, "steady", starts at 0.40in.
C9_ThirtyIsLight ==
    /\ (call.fn = "classifyRain" /\ call.arg[1] = 30)
          => (call.ret.severity = 3 /\ call.ret.type = "light")
    /\ (call.fn = "classifyRain" /\ call.ret.type = "steady")
          => call.arg[1] >= 40

\* classifyRain was called on 0.30in.
C9_Witness == call.fn = "classifyRain" /\ call.arg[1] = 30

\* C10 - on a window whose hours all read 70F, dewpoint 48F, gust <= 10 mph
\* and no precipitation, detectGoldilocks returns "full" and the outlook is
\* the Goldilocks one, and a direct getComfortCategory call on such an
\* hour's readings reports the ideal day too, whenever it is made and
\* whatever follows the three readings in the call.
C10_BothPathsReportIdealDay ==
    /\ (IsOutlook /\ Len(hourly.time) > 0)
          => (/\ Analysis.goldilocksType = "full"
              /\ call.ret.badge.text = "Goldilocks"
              /\ call.ret.headline = "Goldilocks Day!")
    /\ IsComfort
          => (/\ call.ret.threw = "no"
              /\ \E i \in 1..Len(call.ret.text) :
                    call.ret.text[i] = "Goldilocks - just right.")

----------------------------------------------------------------------------
(* The alert horizon *)

\* The series h with every sample of an hour whose index is below k removed
\* (null); the timestamps, and so the length, are kept.
BlankBefore(h, k) ==
    LET blank(arr) == [i \in 1..Len(arr) |-> IF i - 1 < k THEN null ELSE arr[i]]
    IN  [time              |-> h.time,
         temperature_2m    |-> blank(h.temperature_2m),
         dewpoint_2m       |-> blank(h.dewpoint_2m),
         precipitation     |-> blank(h.precipitation),
         snowfall          |-> blank(h.snowfall),
         windgusts_10m     |-> blank(h.windgusts_10m),
         uv_index          |-> blank(h.uv_index),
         winddirection_10m |-> blank(h.winddirection_10m)]

\* C11 - getForecastAlerts derives its alerts from the hours with index in
\* [12, 48) only: the series that agrees with the delivered one on those
\* hours and reports nothing in the hours before index 12 gets the same
\* alerts, for every series length, 12 hours or fewer included.
C11_AlertsIgnoreHoursBefore12 ==
    IsAlerts => call.ret = getForecastAlerts(BlankBefore(hourly, 12))

----------------------------------------------------------------------------
(* Alert identity *)

\* C12 - in every list getForecastAlerts returns there is at most one alert
\* per condition (a condition has its own icon) and the ids are pairwise
\* distinct; and the id of a condition's alert is one fixed key: two lists
\* returned one after the other give the alerts of the same condition the
\* same id, whatever other alerts each list holds.
C12_AlertIdsAreFixedKeys ==
    /\ [](IsAlerts =>
            \A i, j \in 1..Len(call.ret) :
                i # j => /\ call.ret[i].id # call.ret[j].id
                         /\ call.ret[i].icon # call.ret[j].icon)
    /\ [][(IsAlerts /\ IsAlerts') =>
            \A i \in 1..Len(call.ret), j \in 1..Len(call'.ret) :
                call.ret[i].icon = call'.ret[j].icon
                    => call.ret[i].id = call'.ret[j].id]_vars

----------------------------------------------------------------------------
(* One reading of the clock per call *)

\* C13 - within one call of getHumanActionOutlook the current time is read
\* once: whatever the clock does while the call runs, the result is the one
\* a single instant t of the call gives, with "tomorrow" taken from t for
\* the window and the hour and month taken from the same t for the comfort
\* lookup.
C13_OutlookUsesOneInstant ==
    (IsOutlook /\ call.arg # <<>>)
        => \E t \in call.arg[1]..now :
              call.ret = getHumanActionOutlook_part001(hourly, t, t)

----------------------------------------------------------------------------
(* Windows *)

IsWindowCall ==
    call.fn \in {"getCalendarDayWindow", "getTomorrowWindow", "getRelativeWindow"}

Threw(ret) == "threw" \in DOMAIN ret /\ ret.threw # "no"

WellFormed(w, len) == 0 <= w.start /\ w.start <= w.end /\ w.end <= len

\* C14 - every window [start, end) the program produces satisfies
\* 0 <= start <= end <= length of the series: the one getCalendarDayWindow
\* returns, the one getTomorrowWindow returns (its fallback included), the
\* one getRelativeWindow returns for any offsets, and the one
\* getForecastAlerts computes, for every series length, 0 included.
C14_WindowsAreWellFormed ==
    /\ (IsWindowCall /\ ~Threw(call.ret))
          => WellFormed(call.ret, Len(hourly.time))
    /\ IsAlerts => WellFormed(alertWindow(hourly), Len(hourly.time))

\* C15 - getRelativeWindow(series, a, b) clamps a and b into [0, length]
\* and returns the window [min(a', b'), max(a', b')] of the clamped offsets
\* a', b', for every pair of offsets, pairs with a > b included.
C15_RelativeWindowOrdersItsEnds ==
    call.fn = "getRelativeWindow" =>
        LET len == Len(hourly.time)
            a1  == Max2(0, Min2(len, call.arg[1]))
            b1  == Max2(0, Min2(len, call.arg[2]))
        IN  call.ret = [start |-> Min2(a1, b1), end |-> Max2(a1, b1)]

\* C16 - for every series and every target date, an index i lies in the
\* window the day-window function returns if and only if the calendar date
\* of time[i] is the target date, in whatever order the timestamps come.
C16_DayWindowHoldsExactlyTheDay ==
    (call.fn = "getCalendarDayWindow" /\ ~Threw(call.ret)) =>
        \A i \in 0..(Len(hourly.time) - 1) :
            (call.ret.start <= i /\ i < call.ret.end)
                <=> hourly.time[i + 1] = call.arg[1]

\* C17 - the day-window function never throws: for an empty series, and for
\* a series none of whose hours falls on the target date, it returns the
\* empty window (start = end); for a series with matching hours it returns
\* normally.
C17_DayWindowNeverThrows ==
    call.fn = "getCalendarDayWindow" =>
        /\ ~Threw(call.ret)
        /\ (\A i \in 1..Len(hourly.time) : hourly.time[i] # call.arg[1])
              => call.ret.start = call.ret.end

----------------------------------------------------------------------------
(* C18, C19 - aggregation *)

\* True when arr has no valid numeric sample over [start, end).
NoneValid(arr, start, end) == ValidIn(arr, start, end) = {}

\* The defaults of a window without a valid sample of a measurement.
AggregationDefaults ==
    LET s == call.arg[1]
        e == call.arg[2]
    IN  /\ (call.fn = "summarizeTemps" /\ NoneValid(hourly.temperature_2m, s, e))
            => (call.ret.minTemp = null /\ call.ret.maxTemp = null
                /\ call.ret.avgTemp = null)
        /\ (call.fn = "summarizeDewAndUV" /\ NoneValid(hourly.dewpoint_2m, s, e))
            => call.ret.maxDew = null
        /\ (call.fn = "summarizeDewAndUV" /\ NoneValid(hourly.uv_index, s, e))
            => call.ret.maxUV = 0
        /\ (call.fn = "summarizeWindGusts" /\ NoneValid(hourly.windgusts_10m, s, e))
            => call.ret.maxGust = 0
        /\ (call.fn = "accumulatePrecip" /\ NoneValid(hourly.precipitation, s, e))
            => call.ret.rainTotal = 0
        /\ (call.fn = "accumulatePrecip" /\ NoneValid(hourly.snowfall, s, e))
            => call.ret.snowTotal = 0

\* With a valid temperature in the window the three results are numbers
\* and the mean lies between the extremes.
MeanBetweenExtremes ==
    (call.fn = "summarizeTemps"
     /\ ~NoneValid(hourly.temperature_2m, call.arg[1], call.arg[2]))
        => /\ call.ret.minTemp # null
           /\ call.ret.maxTemp # null
           /\ call.ret.avgTemp # null
           /\ call.ret.minTemp <= call.ret.avgTemp
           /\ call.ret.avgTemp <= call.ret.maxTemp

\* C18: over any window, a measurement without a valid numeric sample
\* aggregates to its default (temperatures and maxDew null, maxGust, maxUV
\* and both totals 0), and as soon as one temperature is valid
\* minTemp <= avgTemp <= maxTemp, all three non-null.
C18_AggregationDefaultsAndOrder ==
    AggregationDefaults /\ MeanBetweenExtremes

\* The valid samples of arr at the listed indices, in the order of the list.
SamplesAt(arr, indices) ==
    SelectSeq([k \in 1..Len(indices) |-> safeNum(arr, indices[k])],
              LAMBDA v : v # null)

RECURSIVE SumOf(_)
SumOf(s) == IF s = <<>> THEN 0 ELSE s[1] + SumOf(Tail(s))

Values(s) == {s[k] : k \in 1..Len(s)}

\* Aggregation of the series h over exactly the listed indices.
AggregateAt(h, indices) ==
    LET temps == SamplesAt(h.temperature_2m, indices)
        dews  == SamplesAt(h.dewpoint_2m, indices)
    IN  [rainTotal |-> SumOf(SamplesAt(h.precipitation, indices)),
         snowTotal |-> SumOf(SamplesAt(h.snowfall, indices)),
         temps     |-> temps,
         minTemp   |-> IF temps = <<>> THEN null ELSE SetMin(Values(temps)),
         maxTemp   |-> IF temps = <<>> THEN null ELSE SetMax(Values(temps)),
         avgTemp   |-> avg(temps),
         maxGust   |-> SetMax(Values(SamplesAt(h.windgusts_10m, indices)) \cup {0}),
         maxDew    |-> IF dews = <<>> THEN null ELSE SetMax(Values(dews)),
         maxUV     |-> SetMax(Values(SamplesAt(h.uv_index, indices)) \cup {0})]

\* Aggregation of a slice over its own full range [0, n).
AggregateOf(slice, n) ==
    LET precip == accumulatePrecip(slice, 0, n)
        temps  == summarizeTemps(slice, 0, n)
        dew    == summarizeDewAndUV(slice, 0, n)
    IN  [rainTotal |-> precip.rainTotal,
         snowTotal |-> precip.snowTotal,
         temps     |-> validTemps(slice.temperature_2m, 0, n),
         minTemp   |-> temps.minTemp,
         maxTemp   |-> temps.maxTemp,
         avgTemp   |-> temps.avgTemp,
         maxGust   |-> summarizeWindGusts(slice, 0, n).maxGust,
         maxDew    |-> dew.maxDew,
         maxUV     |-> dew.maxUV]

\* C19: for every series and every list of indices, aggregating the slice
\* sliceHourly returns over [0, number of indices) gives the rain and snow
\* totals, the minimum, maximum and mean temperature, the maximum gust,
\* dewpoint and UV index of the original series over exactly those
\* indices, the selected temperatures appearing once each and in order.
C19_SliceThenAggregate ==
    call.fn = "sliceHourly"
        => AggregateOf(call.ret, Len(call.arg[1])) = AggregateAt(hourly, call.arg[1])

\* A slice of three indices out of order, the first taken twice, the
\* middle one without a valid temperature, with rain in it.
C19_Witness ==
    /\ call.fn = "sliceHourly"
    /\ Len(call.arg[1]) = 3
    /\ call.arg[1][1] > call.arg[1][2]
    /\ call.arg[1][3] = call.arg[1][1]
    /\ summarizeTemps(call.ret, 0, 3).count = 2
    /\ accumulatePrecip(call.ret, 0, 3).rainTotal > 0

----------------------------------------------------------------------------
(* C20 - the base phrase of getComfortCategory *)

\* The base phrase by the stated precedence.
BasePhrase(temp, month) ==
    LET anomaly  == temp - getSeasonalNormalHigh(month)
        seasonal == describeSeasonalFeel(temp, month)
        absolute == describeAbsoluteFeel(temp)
    IN  IF anomaly >= 15 \/ anomaly <= -15 THEN seasonal
        ELSE IF anomaly >= 8 /\ absolute = "cool" THEN "mild and pleasant"
        ELSE IF anomaly <= -8 /\ absolute = "mild" THEN "cool for the season"
        ELSE IF anomaly >= 3 \/ anomaly <= -3 THEN seasonal
        ELSE absolute

\* C20: for every temperature and month the base phrase of
\* getComfortCategory is the unseasonable descriptor when the anomaly is
\* >= 15 or <= -15; else "mild and pleasant" for a mild-for-the-season
\* day of 60..69F and "cool for the season" for a cool-for-the-season day
\* (anomaly <= -8) of 70..79F; else the seasonal descriptor when the
\* anomaly is at least 3 either way; else the absolute descriptor.
C20_BasePhrasePrecedence ==
    (IsComfort /\ call.arg[4].kind = "date")
        => call.ret.text[1] = BasePhrase(call.arg[1], call.arg[4].month)

----------------------------------------------------------------------------
(* C21 - humidity and wind nuances *)

HumidityNuances == {"humid", "dry and comfortable"}
WindNuances     == {"windy", "breezy"}

\* The parts of the text that are one of the given nuances.
NuancesIn(text, nuances) == {k \in 1..Len(text) : text[k] \in nuances}

Carries(text, nuance) == \E k \in 1..Len(text) : text[k] = nuance

\* C21: for every (temp, dew, wind) the text of getComfortCategory
\* carries at most one humidity nuance ("humid" when dew >= 65 and
\* temp >= 75, "dry and comfortable" when dew <= 30 and temp >= 60) and at
\* most one wind nuance ("windy" when wind >= 35, otherwise "breezy" when
\* wind >= 25); when a humidity and a wind condition both hold, both
\* nuances are in the text.
C21_OneNuanceOfEachKind ==
    IsComfort =>
        LET temp == call.arg[1]
            dew  == call.arg[2]
            wind == call.arg[3]
            text == call.ret.text
        IN  /\ Cardinality(NuancesIn(text, HumidityNuances)) <= 1
            /\ Cardinality(NuancesIn(text, WindNuances)) <= 1
            /\ Carries(text, "humid") <=> (dew >= 65 /\ temp >= 75)
            /\ Carries(text, "dry and comfortable") <=> (dew <= 30 /\ temp >= 60)
            /\ Carries(text, "windy") <=> wind >= 35
            /\ Carries(text, "breezy") <=> (wind >= 25 /\ wind < 35)

----------------------------------------------------------------------------
(* C22, C23, C24, C28 - pattern flags of a window *)

\* Some hour of [start, end) has a valid sample of arr satisfying Test.
SomeHour(arr, start, end, Test(_)) ==
    \E i \in Loop(start, end) : safeNum(arr, i) # null /\ Test(safeNum(arr, i))

\* A NW wind, an hour at or under 36F and an hour with more than 0.05in of
\* snow, each anywhere in the window.
NWFlowSigns(h, start, end) ==
    /\ SomeHour(h.winddirection_10m, start, end, LAMBDA dir : dir >= 290 /\ dir <= 330)
    /\ SomeHour(h.temperature_2m, start, end, LAMBDA t : t <= 36)
    /\ SomeHour(h.snowfall, start, end, LAMBDA s : s > 5)

\* C22: the NW-flow snow flag of a window, from analyzeQPF as from
\* detectMicroclimates, is true if and only if the window has an hour with
\* wind direction in [290, 330], an hour at or under 36F and an hour with
\* snowfall over 0.05in, which may be three different hours.
C22_NWFlowSignsMayBeSpread ==
    (call.fn \in {"analyzeQPF", "detectMicroclimates"})
        => (call.ret.nwFlowSnow <=> NWFlowSigns(hourly, call.arg[1], call.arg[2]))

\* Some adjacent pair of hours of [start, end), both valid, satisfies Test.
SomePair(arr, start, end, Test(_, _)) ==
    \E i \in Loop(start + 1, end) :
        /\ safeNum(arr, i - 1) # null
        /\ safeNum(arr, i) # null
        /\ Test(safeNum(arr, i - 1), safeNum(arr, i))

\* C23: detectCAD on [start, end) is true if and only if the window has
\* an adjacent pair of hours with falling temperature, an adjacent pair
\* with rising dewpoint and an hour, the first one included, whose gust is
\* in [10, 25] mph, each condition on its own.
C23_CADCountsTheFirstHour ==
    call.fn = "analyzeThermalProfile"
        => (call.ret.cad <=>
              /\ SomePair(hourly.temperature_2m, call.arg[1], call.arg[2],
                          LAMBDA prev, curr : curr < prev)
              /\ SomePair(hourly.dewpoint_2m, call.arg[1], call.arg[2],
                          LAMBDA prev, curr : curr > prev)
              /\ SomeHour(hourly.windgusts_10m, call.arg[1], call.arg[2],
                          LAMBDA g : g >= 10 /\ g <= 25))

\* The hours of [start, end) that classifyHourlyPrecipType gives `type`.
HoursOfType(h, start, end, type) ==
    {i \in Loop(start, end) :
        classifyHourlyPrecipType(safeNum(h.temperature_2m, i),
                                 safeNum(h.dewpoint_2m, i),
                                 safeNum(h.snowfall, i)) = type}

\* C24: the precip type of a window is "mix" whenever an hour of it is
\* classified mix or it has both a rain hour and a snow hour; it is "snow"
\* only with snow hours and neither rain nor mix hours, and "rain" only
\* with rain hours and neither snow nor mix hours.
C24_AnyMixHourMakesTheWindowMix ==
    call.fn = "analyzeThermalProfile" =>
        LET rain == HoursOfType(hourly, call.arg[1], call.arg[2], "rain")
            snow == HoursOfType(hourly, call.arg[1], call.arg[2], "snow")
            mix  == HoursOfType(hourly, call.arg[1], call.arg[2], "mix")
        IN  /\ (mix # {} \/ (rain # {} /\ snow # {})) => call.ret.precipType = "mix"
            /\ call.ret.precipType = "snow" => (snow # {} /\ rain = {} /\ mix = {})
            /\ call.ret.precipType = "rain" => (rain # {} /\ snow = {} /\ mix = {})

----------------------------------------------------------------------------
(* C25, C27 - Goldilocks variants *)

\* The measures detectGoldilocks is given for the window of this call.
GoldilocksMeasures ==
    LET s == call.arg[1]
        e == call.arg[2]
    IN  [maxTemp    |-> analyzeThermalProfile(hourly, s, e).maxTemp,
         minTemp    |-> analyzeThermalProfile(hourly, s, e).minTemp,
         maxDew     |-> summarizeDewAndUV(hourly, s, e).maxDew,
         maxUV      |-> summarizeDewAndUV(hourly, s, e).maxUV,
         maxGust    |-> summarizeWindGusts(hourly, s, e).maxGust,
         rainTotal  |-> analyzeQPF(hourly, s, e).rainTotal,
         snowTotal  |-> analyzeQPF(hourly, s, e).snowTotal,
         ridgeWinds |-> detectMicroclimates(hourly, s, e).ridgeWinds]

\* v lies in [lo, hi]; an absent or non-numeric v lies in no range.
Within(v, lo, hi) == IsNum(v) /\ v >= lo /\ v <= hi
Below(v, limit)   == IsNum(v) /\ v < limit

\* C25: detectGoldilocks returns "full" exactly when maxTemp is in
\* [68, 74], maxDew in [45, 52], maxGust < 20, rain and snow totals
\* < 0.05 and maxUV < 6; otherwise the first matching variant in the order
\* afternoon, valleys, earlyMuggyLate; and null when none matches or when
\* maxTemp or maxDew is absent.
C25_GoldilocksVariants ==
    call.fn = "detectGoldilocks" =>
        LET m           == GoldilocksMeasures
            perfectTemp == Within(m.maxTemp, 68, 74)
            dry         == Below(m.rainTotal, 5) /\ Below(m.snowTotal, 5)
            full        == /\ perfectTemp /\ Within(m.maxDew, 45, 52)
                           /\ Below(m.maxGust, 20) /\ dry /\ Below(m.maxUV, 6)
            afternoon   == perfectTemp /\ dry /\ Below(m.maxGust, 25) /\ Below(m.minTemp, 45)
            valleys     == perfectTemp /\ dry /\ m.ridgeWinds
            muggy       == perfectTemp /\ IsNum(m.maxDew) /\ m.maxDew > 60
            absent      == m.maxTemp = null \/ m.maxDew = null
        IN  call.ret.type =
                IF absent THEN "null"
                ELSE IF full THEN "full"
                ELSE IF afternoon THEN "afternoon"
                ELSE IF valleys THEN "valleys"
                ELSE IF muggy THEN "earlyMuggyLate"
                ELSE "null"

----------------------------------------------------------------------------
(* C26 - a steady temperature has no swing *)

\* C26: over a window whose valid temperatures are all equal,
\* describeTempSwing returns null whatever the length of the window.
C26_SteadyTemperatureHasNoSwing ==
    (call.fn = "describeTempSwing"
     /\ Cardinality(ValidIn(hourly.temperature_2m, call.arg[1], call.arg[2])) <= 1)
        => call.ret.phrase = "null"

\* C27: whenever detectGoldilocks returns a variant, the window is dry
\* (rain and snow totals under 0.05in) and maxTemp is in [68, 74]; no
\* Goldilocks badge or headline is produced for a window with measurable
\* rain or snow.
C27_GoldilocksIsDry ==
    /\ (call.fn = "detectGoldilocks" /\ call.ret.type # "null")
        => /\ Below(GoldilocksMeasures.rainTotal, 5)
           /\ Below(GoldilocksMeasures.snowTotal, 5)
           /\ Within(GoldilocksMeasures.maxTemp, 68, 74)
    /\ (IsOutlook /\ (call.ret.badge.text = "Goldilocks" \/ call.ret.headline # "null"))
        => /\ Below(Analysis.qpf.rainTotal, 5)
           /\ Below(Analysis.qpf.snowTotal, 5)

\* C28: on every series and window the NW-flow snow flag of analyzeQPF
\* (from detectNWFlowSnow, behind the "nwflow" alert) equals the NW-flow
\* snow flag of detectMicroclimates (behind the summary note and the
\* action list).
C28_NWFlowDetectorsAgree ==
    /\ call.fn = "analyzeQPF"
        => call.ret.nwFlowSnow
             = detectMicroclimates(hourly, call.arg[1], call.arg[2]).nwFlowSnow
    /\ call.fn = "detectMicroclimates"
        => call.ret.nwFlowSnow
             = analyzeQPF(hourly, call.arg[1], call.arg[2]).nwFlowSnow

----------------------------------------------------------------------------
(* C29 - the mixed flag *)

\* C29: when the precip type of analyzeThermalProfile over tomorrow's
\* window is "mix" and none of the goldilocks, stormy and rainy flags is
\* set, getHumanActionOutlook sets the mixed flag and returns the "Mixed"
\* badge with the mixed-precipitation icon.
C29_MixedWindowGetsMixedBadge ==
    (/\ IsOutlook
     /\ Analysis.thermal.precipType = "mix"
     /\ ~Analysis.flags.goldilocks
     /\ ~Analysis.flags.stormy
     /\ ~Analysis.flags.rainy)
        => /\ Analysis.flags.mixed
           /\ call.ret.badge.text = "Mixed"
           /\ call.ret.emoji = "sun-behind-rain"

----------------------------------------------------------------------------
(* C30 - priority actions *)

\* A priority action: one that mentions travel, secure or dress warmly.
SomePriority(list) == \E k \in 1..Len(list) : isPriority(list[k])

\* C30: whenever the action list passed to buildHumanActionText holds a
\* priority action, the "Plan to ..." sentence holds one: a lone priority
\* action is not dropped for two other actions.
C30_PriorityActionIsKept ==
    (call.fn = "buildHumanActionText" /\ SomePriority(call.arg[1]))
        => SomePriority(call.ret.finalActions)

============================================================================
